---- MODULE Spec2Model ----
(***************************************************************************)
(* App Store publishing scripts (store/*.py).                              *)
(*                                                                         *)
(* upload-metadata.py: main() resolves app -> app info -> version, lists   *)
(* the existing localizations once, then walks LOCALES and updates or      *)
(* creates one localization per locale and kind against the remote API.   *)
(* The remote API is the environment: it answers every HTTP call with a    *)
(* status of its choosing or with a transport failure (an exception of     *)
(* the requests library).                                                  *)
(***************************************************************************)
EXTENDS Integers, Sequences, FiniteSets, TLC

VARIABLES
    pc,                 \* position of main() in upload-metadata.py
    run,                \* "first" or "second" execution of the script
    remote,             \* the records the App Store Connect API holds
    app_id,             \* main(): app_id
    app_info_id,        \* main(): app_info_id
    version_id,         \* main(): version_id
    existing_app_info,  \* main(): existing_app_info  (locale -> record id)
    existing_version,   \* main(): existing_version   (locale -> record id)
    i,                  \* main(): index of `for locale in LOCALES`
    success_count,      \* main(): success_count
    fail_count,         \* main(): fail_count
    requests,           \* every HTTP request the script has issued, in order
    returned,           \* what each update_/create_ helper call returned
    args,               \* arguments of the function under test (unit specs)
    ret,                \* its return value (unit specs)
    clock,              \* time.time(), in ticks of 1/TicksPerSecond s
    _cached_token,      \* upload-screenshots-api.py: _cached_token
    _token_expiry,      \* upload-screenshots-api.py: _token_expiry
    output,             \* upload-screenshots.py: fastlane/screenshots on disk
    deliverfile,        \* upload-screenshots.py: fastlane/Deliverfile written
    locale_index,       \* upload-screenshots.py: main(): `for locale in LOCALES`
    written,            \* files the prepare_locale_screenshots call has written
    upload_ops,         \* upload_screenshot(): upload_ops
    op_index,           \* upload_screenshot(): position of `for op in upload_ops`
    inflight,           \* the HTTP call the process is blocked in, if any
    localizations,      \* upload-screenshots-api.py: main(): localizations
    processed,          \* main(): processed
    total_iphone,       \* main(): total_iphone
    total_ipad,         \* main(): total_ipad
    existing_sets,      \* process_locale(): existing_sets
    set_id,             \* process_locale(): set_id
    iphone_count,       \* process_locale(): iphone_count
    ipad_count,         \* process_locale(): ipad_count
    device_index,       \* process_locale(): position in DISPLAY_TYPES.items()
    pending,            \* delete_existing_screenshots(): rest of data["data"]
    shot_index          \* process_locale(): position in `screenshots`

vars == <<pc, run, remote, app_id, app_info_id, version_id, existing_app_info,
          existing_version, i, success_count, fail_count, requests, returned,
          args, ret, clock, _cached_token, _token_expiry, output, deliverfile,
          locale_index, written, upload_ops, op_index, inflight,
          localizations, processed, total_iphone, total_ipad, existing_sets,
          set_id, iphone_count, ipad_count, device_index, pending, shot_index>>

tokenVars == <<_cached_token, _token_expiry>>

prepVars == <<output, deliverfile, locale_index, written>>

uploadVars == <<upload_ops, op_index>>

\* The state of the scripts other than upload-metadata.py.
apiVars == <<localizations, processed, total_iphone, total_ipad, existing_sets,
             set_id, iphone_count, ipad_count, device_index, pending,
             shot_index>>

scriptVars == <<clock, tokenVars, prepVars, uploadVars, inflight, apiVars>>

\* upload-metadata.py's variables other than pc.
metaVars == <<run, remote, app_id, app_info_id, version_id, existing_app_info,
              existing_version, i, success_count, fail_count, requests, returned>>

runVars == <<pc, run, remote, app_id, app_info_id, version_id, existing_app_info,
             existing_version, i, success_count, fail_count, requests, returned>>

Min(a, b) == IF a <= b THEN a ELSE b

None == "None"

-----------------------------------------------------------------------------
(* Python str values.  A string is a range lo..hi of the characters of a   *)
(* named text, so that slicing is computed on positions and two strings    *)
(* are equal exactly when they hold the same characters of the same text.  *)

Text(tag, field, n) == [text |-> <<tag, field>>, lo |-> 1, hi |-> n]

EmptyStr == [text |-> <<>>, lo |-> 1, hi |-> 0]

StrLen(s) == IF s.hi < s.lo THEN 0 ELSE s.hi - s.lo + 1

\* s[:n] for n >= 0: the first n characters, the whole string when shorter.
SliceTo(s, n) ==
    IF StrLen(s) <= n THEN s
    ELSE IF n = 0 THEN EmptyStr
    ELSE [s EXCEPT !.hi = s.lo + n - 1]

\* dict.get(key, ""): the value, or "" when the key is missing.
Get(d, key) == IF key \in DOMAIN d THEN d[key] ELSE EmptyStr

-----------------------------------------------------------------------------
(* upload-metadata.py: the static tables.                                  *)

LOCALES == <<
    "ar-SA", "ca", "cs", "da", "de-DE", "el", "en-AU", "en-CA", "en-GB", "en-US",
    "es-ES", "es-MX", "fi", "fr-CA", "fr-FR", "he", "hi", "hr", "hu", "id",
    "it", "ja", "ko", "ms", "nl-NL", "no", "pl", "pt-BR", "pt-PT", "ro",
    "ru", "sk", "sv", "th", "tr", "uk", "vi", "zh-Hans", "zh-Hant"
>>

Entry(n, s, d, k, w, p) ==
    [name |-> n, subtitle |-> s, description |-> d, keywords |-> k,
     whatsNew |-> w, promotionalText |-> p]

Own(tag, n, s, d, k, w, p) ==
    Entry(Text(tag, "name", n), Text(tag, "subtitle", s),
          Text(tag, "description", d), Text(tag, "keywords", k),
          Text(tag, "whatsNew", w), Text(tag, "promotionalText", p))

\* Each field is named after the first table entry holding the same text:
\* en-AU, en-CA and en-GB repeat the en-US strings, fr-CA those of fr-FR,
\* es-MX those of es-ES; pt-PT differs from pt-BR in promotionalText only.
METADATA ==
    "en-US" :> Own("en-US", 30, 25, 1262, 98, 106, 135) @@
    "en-AU" :> Own("en-US", 30, 25, 1262, 98, 106, 135) @@
    "en-CA" :> Own("en-US", 30, 25, 1262, 98, 106, 135) @@
    "en-GB" :> Own("en-US", 30, 25, 1262, 98, 106, 135) @@
    "ko" :> Own("ko", 25, 24, 822, 92, 57, 97) @@
    "ja" :> Own("ja", 25, 23, 813, 91, 56, 85) @@
    "zh-Hans" :> Own("zh-Hans", 21, 20, 660, 92, 40, 74) @@
    "zh-Hant" :> Own("zh-Hant", 21, 20, 660, 92, 40, 74) @@
    "de-DE" :> Entry(Text("en-US", "name", 30), Text("de-DE", "subtitle", 27), Text("de-DE", "description", 1347), Text("de-DE", "keywords", 100), Text("de-DE", "whatsNew", 125), Text("de-DE", "promotionalText", 137)) @@
    "fr-FR" :> Own("fr-FR", 31, 27, 1433, 99, 159, 137) @@
    "fr-CA" :> Own("fr-FR", 31, 27, 1433, 99, 159, 137) @@
    "es-ES" :> Own("es-ES", 33, 27, 1473, 99, 119, 135) @@
    "es-MX" :> Own("es-ES", 33, 27, 1473, 99, 119, 135) @@
    "it" :> Own("it", 28, 26, 1437, 94, 141, 132) @@
    "pt-BR" :> Own("pt-BR", 29, 27, 1485, 98, 127, 130) @@
    "pt-PT" :> Entry(Text("pt-BR", "name", 29), Text("pt-BR", "subtitle", 27), Text("pt-BR", "description", 1485), Text("pt-BR", "keywords", 98), Text("pt-BR", "whatsNew", 127), Text("pt-PT", "promotionalText", 131)) @@
    "ru" :> Own("ru", 30, 25, 1424, 95, 112, 124) @@
    "ar-SA" :> Own("ar-SA", 29, 27, 1205, 97, 84, 121) @@
    "hi" :> Own("hi", 29, 27, 1279, 98, 112, 133) @@
    "th" :> Own("th", 29, 26, 1229, 93, 104, 118) @@
    "vi" :> Entry(Text("it", "name", 28), Text("en-US", "subtitle", 25), Text("vi", "description", 1284), Text("vi", "keywords", 94), Text("vi", "whatsNew", 101), Text("vi", "promotionalText", 124)) @@
    "id" :> Own("id", 27, 24, 1286, 93, 121, 130) @@
    "ms" :> Own("ms", 33, 24, 1326, 100, 123, 150) @@
    "nl-NL" :> Entry(Text("it", "name", 28), Text("en-US", "subtitle", 25), Text("nl-NL", "description", 1343), Text("nl-NL", "keywords", 98), Text("nl-NL", "whatsNew", 124), Text("nl-NL", "promotionalText", 128)) @@
    "pl" :> Own("pl", 28, 27, 1406, 93, 114, 122) @@
    "tr" :> Own("tr", 36, 25, 1342, 97, 105, 135) @@
    "uk" :> Own("uk", 35, 25, 1393, 96, 108, 121) @@
    "sv" :> Entry(Text("it", "name", 28), Text("sv", "subtitle", 26), Text("sv", "description", 1308), Text("sv", "keywords", 95), Text("sv", "whatsNew", 116), Text("sv", "promotionalText", 127)) @@
    "no" :> Entry(Text("it", "name", 28), Text("en-US", "subtitle", 25), Text("no", "description", 1306), Text("no", "keywords", 93), Text("no", "whatsNew", 116), Text("no", "promotionalText", 128)) @@
    "da" :> Entry(Text("it", "name", 28), Text("en-US", "subtitle", 25), Text("da", "description", 1276), Text("da", "keywords", 99), Text("da", "whatsNew", 124), Text("da", "promotionalText", 120)) @@
    "fi" :> Own("fi", 29, 27, 1332, 100, 103, 142) @@
    "cs" :> Entry(Text("it", "name", 28), Text("en-US", "subtitle", 25), Text("cs", "description", 1314), Text("cs", "keywords", 98), Text("cs", "whatsNew", 112), Text("cs", "promotionalText", 116)) @@
    "sk" :> Entry(Text("it", "name", 28), Text("en-US", "subtitle", 25), Text("sk", "description", 1348), Text("sk", "keywords", 100), Text("sk", "whatsNew", 114), Text("sk", "promotionalText", 120)) @@
    "hu" :> Own("hu", 29, 26, 1326, 94, 109, 143) @@
    "ro" :> Entry(Text("ro", "name", 31), Text("en-US", "subtitle", 25), Text("ro", "description", 1428), Text("ro", "keywords", 94), Text("ro", "whatsNew", 132), Text("ro", "promotionalText", 132)) @@
    "hr" :> Entry(Text("it", "name", 28), Text("hr", "subtitle", 25), Text("hr", "description", 1384), Text("hr", "keywords", 92), Text("hr", "whatsNew", 122), Text("hr", "promotionalText", 129)) @@
    "el" :> Own("el", 30, 27, 1449, 91, 135, 130) @@
    "he" :> Own("he", 28, 26, 1104, 97, 76, 110) @@
    "ca" :> Own("ca", 32, 27, 1428, 98, 134, 129)

\* Variant: a default locale that is no key of the table.
DEFAULT_LOCALE_NoEntry == "en"

DEFAULT_LOCALE == "en-US"

locale_mapping ==
    "en-AU" :> "en-US" @@ "en-CA" :> "en-US" @@ "en-GB" :> "en-US" @@
    "es-MX" :> "es-ES" @@ "fr-CA" :> "fr-FR" @@ "pt-PT" :> "pt-BR"

\* A helper returns a value or raises an exception.
Return(v) == [raised |-> FALSE, value |-> v]

Raise(e) == [raised |-> TRUE, value |-> e]

\* Variant: the base-language mapping is skipped.
get_metadata_for_locale_NoMapping(table, locale) ==
    IF locale \in DOMAIN table THEN Return(table[locale])
    ELSE IF DEFAULT_LOCALE \in DOMAIN table
         THEN Return(table[DEFAULT_LOCALE])
         ELSE Raise("KeyError")

get_metadata_for_locale_DefaultOnly(table, locale) ==
    IF DEFAULT_LOCALE \in DOMAIN table
    THEN Return(table[DEFAULT_LOCALE])
    ELSE Raise("KeyError")

\* get_metadata_for_locale(locale), reading the module-level table `table`.
get_metadata_for_locale(table, locale) ==
    IF locale \in DOMAIN table THEN Return(table[locale])
    ELSE LET mapped_locale ==
                 IF locale \in DOMAIN locale_mapping
                 THEN locale_mapping[locale] ELSE None
         IN  IF mapped_locale # None /\ mapped_locale \in DOMAIN table
             THEN Return(table[mapped_locale])
             ELSE IF DEFAULT_LOCALE \in DOMAIN table
                  THEN Return(table[DEFAULT_LOCALE])
                  ELSE Raise("KeyError")

-----------------------------------------------------------------------------
(* HTTP.  A call through `session` ends in a response with a status code   *)
(* or in an exception of the requests library (timeout after 30 s,         *)
(* connection error).  Helpers return a value or raise.                    *)

Response(status, data) == [kind |-> "response", status |-> status, data |-> data]

TransportError == [kind |-> "exception"]

\* response.raise_for_status(): HTTPError for a 4xx or 5xx status.
RaisesForStatus(reply) == reply.status >= 400 /\ reply.status < 600

\* The common head of the get_* helpers: session.get(...) raised, or
\* raise_for_status() did.
GetFailed(reply) == reply.kind = "exception" \/ RaisesForStatus(reply)

GetError(reply) ==
    Raise(IF reply.kind = "exception" THEN "RequestException" ELSE "HTTPError")

-----------------------------------------------------------------------------
(* upload-metadata.py: resource resolution.                                *)

EDITABLE_STATES ==
    {"PREPARE_FOR_SUBMISSION", "WAITING_FOR_REVIEW", "IN_REVIEW",
     "PENDING_DEVELOPER_RELEASE", "DEVELOPER_REJECTED", "REJECTED"}

\* info["attributes"].get("appStoreState", "")
StateOf(rec) ==
    IF "appStoreState" \in DOMAIN rec.attributes
    THEN rec.attributes["appStoreState"] ELSE ""

\* for info in data["data"]: if state in [...]: return info["id"]
RECURSIVE FirstEditableFrom(_, _)
FirstEditableFrom(data, k) ==
    IF k > Len(data) THEN None
    ELSE IF StateOf(data[k]) \in EDITABLE_STATES THEN data[k].id
    ELSE FirstEditableFrom(data, k + 1)

\* Variant: no preference for editable records.
SelectRecord_First(data) == data[1].id

\* The selection both get_app_info and get_app_store_version make on a
\* non-empty list: first editable record, else the first record.
SelectRecord(data) ==
    LET hit == FirstEditableFrom(data, 1)
    IN  IF hit # None THEN hit ELSE data[1].id

get_app_id_body(data) ==
    IF data # <<>> THEN Return(data[1].id) ELSE Raise("ValueError")

get_app_id(reply) ==
    IF GetFailed(reply) THEN GetError(reply) ELSE get_app_id_body(reply.data)

get_app_info_body(data) ==
    IF data # <<>> THEN Return(SelectRecord(data)) ELSE Raise("ValueError")

get_app_info(reply) ==
    IF GetFailed(reply) THEN GetError(reply) ELSE get_app_info_body(reply.data)

\* Variant: an empty list yields None instead of raising.
get_app_store_version_body_NoRaise(data) ==
    IF data # <<>> THEN Return(SelectRecord(data)) ELSE Return(None)

get_app_store_version_body(data) ==
    IF data # <<>> THEN Return(SelectRecord(data)) ELSE Raise("ValueError")

get_app_store_version(reply) ==
    IF GetFailed(reply) THEN GetError(reply) ELSE get_app_store_version_body(reply.data)

\* {item["attributes"]["locale"]: item["id"] for item in data["data"]}
\* (a later item of the same locale overwrites an earlier one).
RECURSIVE LocaleDict(_, _)
LocaleDict(data, k) ==
    IF k = 0 THEN <<>>
    ELSE LET before == LocaleDict(data, k - 1)
             item == data[k]
         IN  [l \in DOMAIN before \cup {item.locale} |->
                 IF l = item.locale THEN item.id ELSE before[l]]

\* Variant: the listing's records are ignored.
localizations_body_Empty(data) == Return(<<>>)

localizations_body(data) == Return(LocaleDict(data, Len(data)))

get_existing_localizations(reply) ==
    IF GetFailed(reply) THEN GetError(reply) ELSE localizations_body(reply.data)

get_existing_version_localizations(reply) ==
    IF GetFailed(reply) THEN GetError(reply) ELSE localizations_body(reply.data)

-----------------------------------------------------------------------------
(* upload-metadata.py: the localization helpers.                           *)

KEYWORDS_MAX == 100

\* Variant: keywords sent without the slice.
update_version_attributes_NoSlice(metadata) ==
    [description |-> Get(metadata, "description"),
     keywords |-> Get(metadata, "keywords"),
     whatsNew |-> Get(metadata, "whatsNew"),
     promotionalText |-> Get(metadata, "promotionalText")]

\* The "attributes" object update_version_localization sends.
update_version_attributes(metadata) ==
    [description |-> Get(metadata, "description"),
     keywords |-> SliceTo(Get(metadata, "keywords"), KEYWORDS_MAX),
     whatsNew |-> Get(metadata, "whatsNew"),
     promotionalText |-> Get(metadata, "promotionalText")]

\* The "attributes" object create_version_localization sends.
create_version_attributes(locale, metadata) ==
    [locale |-> locale,
     description |-> Get(metadata, "description"),
     keywords |-> SliceTo(Get(metadata, "keywords"), KEYWORDS_MAX),
     whatsNew |-> Get(metadata, "whatsNew"),
     promotionalText |-> Get(metadata, "promotionalText")]

\* Variant: every status below 400 is reported as a success.
update_version_localization_NotError(reply) ==
    IF reply.kind = "exception" THEN Raise("RequestException")
    ELSE IF reply.status < 400 THEN Return(TRUE)
    ELSE Return(FALSE)

\* update_version_localization after session.patch returned.
update_version_localization(reply) ==
    IF reply.kind = "exception" THEN Raise("RequestException")
    ELSE IF reply.status = 200 THEN Return(TRUE)
    ELSE Return(FALSE)

\* create_version_localization after session.post returned.
create_version_localization(reply) ==
    IF reply.kind = "exception" THEN Raise("RequestException")
    ELSE IF reply.status = 201 THEN Return(TRUE)
    ELSE Return(FALSE)

\* Variant: the disabled update helper reports failure.
update_app_info_localization_Fails(localization_id, locale, metadata) ==
    Return(FALSE)

\* "No-op: app info updates are intentionally disabled."  No HTTP call.
update_app_info_localization(localization_id, locale, metadata) == Return(TRUE)

create_app_info_localization(info_id, locale, metadata) == Return(TRUE)

-----------------------------------------------------------------------------
(* The remote API as the run sees it.                                      *)

NumLocales == 3

\* The locales main() walks: the head of LOCALES.
RunLocales == SubSeq(LOCALES, 1, NumLocales)

LocaleSet == {RunLocales[k] : k \in 1..NumLocales}

Rec(id, state) == [id |-> id, attributes |-> [appStoreState |-> state]]

AppLists == {<<>>, <<[id |-> "app1"]>>}

AppInfoLists ==
    {<<>>,
     <<Rec("info1", "READY_FOR_SALE")>>,
     <<Rec("info1", "READY_FOR_SALE"), Rec("info2", "PREPARE_FOR_SUBMISSION")>>}

VersionLists ==
    {<<>>,
     <<Rec("ver1", "READY_FOR_SALE")>>,
     <<Rec("ver1", "READY_FOR_SALE"), Rec("ver2", "REJECTED")>>}

ErrorStatuses == {401, 409, 500}

Loc(kind, parent, locale) ==
    [id |-> <<kind, parent, locale>>, parent |-> parent, locale |-> locale]

\* The localization records of the locales in S, in LOCALES order, under
\* the first listed parent, and those of the other locales under the second.
RECURSIVE LocsOf(_, _, _, _)
LocsOf(kind, parents, S, k) ==
    IF k = 0 THEN <<>>
    ELSE LET l == RunLocales[k]
             rest == LocsOf(kind, parents, S, k - 1)
         IN  IF l \in S /\ Len(parents) >= 1
             THEN Append(rest, Loc(kind, parents[1].id, l))
             ELSE IF l \notin S /\ Len(parents) >= 2
                  THEN Append(rest, Loc(kind, parents[2].id, l))
                  ELSE rest

Under(locs, parent) == SelectSeq(locs, LAMBDA r : r.parent = parent)

HasLoc(locs, parent, locale) ==
    \E k \in 1..Len(locs) : locs[k].parent = parent /\ locs[k].locale = locale

\* What the API may answer to a GET whose successful body is `data`.
GetReplies(data) ==
    {TransportError, Response(200, data)}
        \cup {Response(s, <<>>) : s \in ErrorStatuses}

\* A request as issued: the verb, the resource collection of the URL, the id
\* in the URL (or the query's subject) and the JSON body.  `run` and
\* `for_locale` (the locale the loop was at) only label the entry.
Request(method, resource, id, for_locale, body) ==
    [run |-> run, method |-> method, resource |-> resource, id |-> id,
     for_locale |-> for_locale, body |-> body]

NoBody == <<>>

-----------------------------------------------------------------------------
(* upload-metadata.py: main().                                             *)

Locals0 ==
    /\ app_id = None
    /\ app_info_id = None
    /\ version_id = None
    /\ existing_app_info = <<>>
    /\ existing_version = <<>>
    /\ i = 1
    /\ success_count = 0
    /\ fail_count = 0

\* jwt.encode(payload, key, "ES256"): the payload's times and the signature,
\* named by the number of the call that made it.
Token(iat, exp, sig) == [iat |-> iat, exp |-> exp, sig |-> sig]

\* `_cached_token = None`: no signature.
NoToken == Token(0, 0, 0)

\* The other scripts are not running.
\* No HTTP call is in flight.
NoCall == [script |-> "none", method |-> "none", timeout |-> 0, since |-> 0]

TokenIdle == _cached_token = NoToken /\ _token_expiry = 0

PrepIdle ==
    /\ output = [exists |-> FALSE, dirs |-> {}, files |-> {}]
    /\ deliverfile = FALSE
    /\ locale_index = 0
    /\ written = 0

UploadIdle == upload_ops = <<>> /\ op_index = 0

\* upload-screenshots-api.py's main() has not started.
ApiIdle ==
    /\ localizations = <<>>
    /\ processed = 0
    /\ total_iphone = 0
    /\ total_ipad = 0
    /\ existing_sets = <<>>
    /\ set_id = <<>>
    /\ iphone_count = 0
    /\ ipad_count = 0
    /\ device_index = 0
    /\ pending = <<>>
    /\ shot_index = 0

ScriptsIdle ==
    /\ clock = 0
    /\ TokenIdle
    /\ PrepIdle
    /\ UploadIdle
    /\ inflight = NoCall
    /\ ApiIdle

UnitIdle == args = None /\ ret = None /\ ScriptsIdle

Init ==
    /\ pc = "get_app_id"
    /\ run = "first"
    /\ \E apps \in AppLists, infos \in AppInfoLists, versions \in VersionLists,
          S \in SUBSET LocaleSet,
          A \in {{}, {RunLocales[1]}, LocaleSet} :
          remote = [apps |-> apps, appInfos |-> infos, appStoreVersions |-> versions,
                    appInfoLocalizations |->
                        LocsOf("appInfoLocalizations", infos, A, NumLocales),
                    appStoreVersionLocalizations |->
                        LocsOf("appStoreVersionLocalizations", versions, S, NumLocales)]
    /\ Locals0
    /\ requests = <<>>
    /\ returned = <<>>
    /\ UnitIdle

\* An exception nobody catches ends main().
Abort ==
    /\ pc' = "aborted"
    /\ UNCHANGED <<app_id, app_info_id, version_id, existing_app_info,
                   existing_version, i, success_count, fail_count>>

\* app_id = get_app_id()
GetAppId ==
    /\ pc = "get_app_id"
    /\ requests' = Append(requests, Request("GET", "apps", None, None, NoBody))
    /\ \E reply \in GetReplies(remote.apps) :
          LET r == get_app_id(reply)
          IN  IF r.raised THEN Abort
              ELSE /\ app_id' = r.value
                   /\ pc' = "get_app_info"
                   /\ UNCHANGED <<app_info_id, version_id, existing_app_info,
                                  existing_version, i, success_count, fail_count>>
    /\ UNCHANGED <<run, remote, returned, args, ret, scriptVars>>

\* app_info_id = get_app_info(app_id)
GetAppInfo ==
    /\ pc = "get_app_info"
    /\ requests' = Append(requests, Request("GET", "appInfos", app_id, None, NoBody))
    /\ \E reply \in GetReplies(remote.appInfos) :
          LET r == get_app_info(reply)
          IN  IF r.raised THEN Abort
              ELSE /\ app_info_id' = r.value
                   /\ pc' = "get_app_store_version"
                   /\ UNCHANGED <<app_id, version_id, existing_app_info,
                                  existing_version, i, success_count, fail_count>>
    /\ UNCHANGED <<run, remote, returned, args, ret, scriptVars>>

\* version_id = get_app_store_version(app_id)
GetAppStoreVersion ==
    /\ pc = "get_app_store_version"
    /\ requests' = Append(requests, Request("GET", "appStoreVersions", app_id, None, NoBody))
    /\ \E reply \in GetReplies(remote.appStoreVersions) :
          LET r == get_app_store_version(reply)
          IN  IF r.raised THEN Abort
              ELSE /\ version_id' = r.value
                   /\ pc' = "get_existing_localizations"
                   /\ UNCHANGED <<app_id, app_info_id, existing_app_info,
                                  existing_version, i, success_count, fail_count>>
    /\ UNCHANGED <<run, remote, returned, args, ret, scriptVars>>

\* existing_app_info = get_existing_localizations(app_info_id)
GetExistingLocalizations ==
    /\ pc = "get_existing_localizations"
    /\ requests' = Append(requests,
           Request("GET", "appInfoLocalizations", app_info_id, None, NoBody))
    /\ \E reply \in GetReplies(Under(remote.appInfoLocalizations, app_info_id)) :
          LET r == get_existing_localizations(reply)
          IN  IF r.raised THEN Abort
              ELSE /\ existing_app_info' = r.value
                   /\ pc' = "get_existing_version_localizations"
                   /\ UNCHANGED <<app_id, app_info_id, version_id,
                                  existing_version, i, success_count, fail_count>>
    /\ UNCHANGED <<run, remote, returned, args, ret, scriptVars>>

\* existing_version = get_existing_version_localizations(version_id);
\* success_count = 0; fail_count = 0; the loop starts (or is skipped).
GetExistingVersionLocalizations ==
    /\ pc = "get_existing_version_localizations"
    /\ requests' = Append(requests,
           Request("GET", "appStoreVersionLocalizations", version_id, None, NoBody))
    /\ \E reply \in GetReplies(Under(remote.appStoreVersionLocalizations, version_id)) :
          LET r == get_existing_version_localizations(reply)
          IN  IF r.raised THEN Abort
              ELSE /\ existing_version' = r.value
                   /\ pc' = IF Len(RunLocales) >= 1
                            THEN "app_info_localization" ELSE "summary"
                   /\ UNCHANGED <<app_id, app_info_id, version_id,
                                  existing_app_info, i, success_count, fail_count>>
    /\ UNCHANGED <<run, remote, returned, args, ret, scriptVars>>

\* Variant: the membership test never succeeds (always create).
InExisting_Never(existing, locale) == FALSE

\* `if locale in existing_app_info:` / `if locale in existing_version:`
InExisting(existing, locale) == locale \in DOMAIN existing

Outcome(kind, op, locale, value) ==
    [run |-> run, kind |-> kind, op |-> op, locale |-> locale, value |-> value]

\* `if helper(...): success_count += 1 else: fail_count += 1`
Count_DropsFailures(value) ==
    /\ success_count' = IF value THEN success_count + 1 ELSE success_count
    /\ fail_count' = fail_count

Count(value) ==
    /\ success_count' = IF value THEN success_count + 1 ELSE success_count
    /\ fail_count' = IF value THEN fail_count ELSE fail_count + 1

NextLocale_Refetch ==
    IF i < Len(RunLocales)
    THEN i' = i + 1 /\ pc' = "get_existing_version_localizations"
    ELSE i' = i /\ pc' = "summary"

\* The end of one pass of `for locale in LOCALES`.
NextLocale ==
    IF i < Len(RunLocales)
    THEN i' = i + 1 /\ pc' = "app_info_localization"
    ELSE i' = i /\ pc' = "summary"

\* metadata = get_metadata_for_locale(locale), then the app-info half of the
\* loop body.  Both helpers return without any HTTP call.
AppInfoLocalization ==
    /\ pc = "app_info_localization"
    /\ LET locale == RunLocales[i]
           looked == get_metadata_for_locale(METADATA, locale)
           metadata == looked.value
       IN  IF looked.raised
           THEN /\ Abort
                /\ UNCHANGED returned
           ELSE LET update == InExisting(existing_app_info, locale)
                    r == IF update
                         THEN update_app_info_localization(
                                  existing_app_info[locale], locale, metadata)
                         ELSE create_app_info_localization(
                                  app_info_id, locale, metadata)
                IN  /\ returned' = Append(returned,
                           Outcome("app_info", IF update THEN "update" ELSE "create",
                                   locale, r.value))
                    /\ Count(r.value)
                    /\ pc' = "version_localization"
                    /\ UNCHANGED <<app_id, app_info_id, version_id,
                                   existing_app_info, existing_version, i>>
    /\ UNCHANGED <<run, remote, requests, args, ret, scriptVars>>

\* What the API may answer to the PATCH of a version localization.
PatchReplies ==
    {TransportError, Response(200, NoBody)}
        \cup {Response(s, NoBody) : s \in ErrorStatuses}

\* update_version_localization(existing_version[locale], locale, metadata)
UpdateVersionLocalization ==
    /\ pc = "version_localization"
    /\ LET locale == RunLocales[i]
           looked == get_metadata_for_locale(METADATA, locale)
           metadata == looked.value
       IN  /\ InExisting(existing_version, locale)
           /\ requests' = Append(requests,
                  Request("PATCH", "appStoreVersionLocalizations",
                          existing_version[locale], locale,
                          [attributes |-> update_version_attributes(metadata)]))
           /\ \E reply \in PatchReplies :
                 LET r == update_version_localization(reply)
                 IN  IF r.raised
                     THEN /\ Abort
                          /\ UNCHANGED returned
                     ELSE /\ returned' = Append(returned,
                                 Outcome("version", "update", locale, r.value))
                          /\ Count(r.value)
                          /\ NextLocale
                          /\ UNCHANGED <<app_id, app_info_id, version_id,
                                         existing_app_info, existing_version>>
    /\ UNCHANGED <<run, remote, args, ret, scriptVars>>

\* The API creates the record on 201; it refuses a second record of a
\* (version, locale) with 409.  When the response is lost in transport the
\* record may or may not have been created.
Created(locale) ==
    [remote EXCEPT !.appStoreVersionLocalizations =
        Append(@, Loc("appStoreVersionLocalizations", version_id, locale))]

\* create_version_localization(version_id, locale, metadata)
CreateVersionLocalization ==
    /\ pc = "version_localization"
    /\ LET locale == RunLocales[i]
           looked == get_metadata_for_locale(METADATA, locale)
           metadata == looked.value
           exists == HasLoc(remote.appStoreVersionLocalizations, version_id, locale)
       IN  /\ ~InExisting(existing_version, locale)
           /\ requests' = Append(requests,
                  Request("POST", "appStoreVersionLocalizations", None, locale,
                          [attributes |-> create_version_attributes(locale, metadata),
                           appStoreVersion |-> version_id]))
           /\ \E reply \in {TransportError, Response(201, NoBody)}
                               \cup {Response(s, NoBody) : s \in ErrorStatuses} :
                 /\ reply.kind = "response" /\ reply.status = 201 => ~exists
                 /\ \/ /\ reply.kind = "response" /\ reply.status = 201
                       /\ remote' = Created(locale)
                    \/ /\ reply.kind = "exception" /\ ~exists
                       /\ remote' = Created(locale)
                    \/ /\ ~(reply.kind = "response" /\ reply.status = 201)
                       /\ remote' = remote
                 /\ LET r == create_version_localization(reply)
                    IN  IF r.raised
                        THEN /\ Abort
                             /\ UNCHANGED returned
                        ELSE /\ returned' = Append(returned,
                                    Outcome("version", "create", locale, r.value))
                             /\ Count(r.value)
                             /\ NextLocale
                             /\ UNCHANGED <<app_id, app_info_id, version_id,
                                            existing_app_info, existing_version>>
    /\ UNCHANGED <<run, args, ret, scriptVars>>

\* The script is started again on the remote state the first run left.
Rerun ==
    /\ pc \in {"summary", "aborted"}
    /\ run = "first"
    /\ run' = "second"
    /\ pc' = "get_app_id"
    /\ app_id' = None
    /\ app_info_id' = None
    /\ version_id' = None
    /\ existing_app_info' = <<>>
    /\ existing_version' = <<>>
    /\ i' = 1
    /\ success_count' = 0
    /\ fail_count' = 0
    /\ UNCHANGED <<remote, requests, returned, args, ret, scriptVars>>

Next ==
    \/ GetAppId
    \/ GetAppInfo
    \/ GetAppStoreVersion
    \/ GetExistingLocalizations
    \/ GetExistingVersionLocalizations
    \/ AppInfoLocalization
    \/ UpdateVersionLocalization
    \/ CreateVersionLocalization
    \/ Rerun

Spec == Init /\ [][Next]_vars

-----------------------------------------------------------------------------
(* Unit specifications: one function applied to enumerated arguments.      *)
(* main() is not running: its variables stay at their start values.        *)

MainNotStarted ==
    /\ run = "first"
    /\ remote = <<>>
    /\ Locals0
    /\ requests = <<>>
    /\ returned = <<>>

MainIdle == pc = "unit" /\ MainNotStarted

RunIdle == MainIdle /\ ScriptsIdle

MaxCalls == 2

\* Each call appends what it returned.
Call(result) ==
    /\ pc = "unit"
    /\ Len(ret) < MaxCalls
    /\ ret' = Append(ret, result)
    /\ UNCHANGED <<runVars, args, scriptVars>>

(* get_metadata_for_locale on the shipped table and on the table with some *)
(* translations taken out (the situation the fallback exists for); the     *)
(* default locale's entry stays.                                           *)

\* Every locale main() iterates over.
LocaleSetAll == {LOCALES[k] : k \in 1..Len(LOCALES)}

LocaleInputs ==
    {LOCALES[k] : k \in 1..Len(LOCALES)} \cup {"xx-YY", "en", "", "es-419"}

Removable ==
    {"en-AU", "en-CA", "en-GB", "es-MX", "es-ES", "fr-CA", "pt-PT", "pt-BR"}

TableWithout(gone) == [k \in (DOMAIN METADATA) \ gone |-> METADATA[k]]

LookupInit ==
    /\ RunIdle
    /\ \E gone \in SUBSET Removable, locale \in LocaleInputs :
          args = [table |-> TableWithout(gone), locale |-> locale]
    /\ ret = <<>>

LookupCall == Call(get_metadata_for_locale(args.table, args.locale))

LookupSpec == LookupInit /\ [][LookupCall]_vars

(* get_app_info / get_app_store_version on every list of up to MaxRecords  *)
(* records answered with status 200.                                       *)

MaxRecords == 3

\* appStoreState values; "absent" is a record without the attribute.
RecordStates == EDITABLE_STATES \cup {"READY_FOR_SALE", "", "absent"}

RecordAt(k, state) ==
    [id |-> <<"rec", k>>,
     attributes |-> IF state = "absent" THEN <<>>
                    ELSE [appStoreState |-> state]]

RecordLists ==
    UNION {{[k \in 1..n |-> RecordAt(k, f[k])] : f \in [1..n -> RecordStates]}
              : n \in 0..MaxRecords}

ResolverInit ==
    /\ RunIdle
    /\ \E fn \in {"get_app_info", "get_app_store_version"}, data \in RecordLists :
          args = [fn |-> fn, data |-> data]
    /\ ret = <<>>

GetAppInfoCall ==
    /\ args.fn = "get_app_info"
    /\ Call(get_app_info(Response(200, args.data)))

GetAppStoreVersionCall ==
    /\ args.fn = "get_app_store_version"
    /\ Call(get_app_store_version(Response(200, args.data)))

ResolverNext == GetAppInfoCall \/ GetAppStoreVersionCall

ResolverSpec == ResolverInit /\ [][ResolverNext]_vars

(* The attributes update_/create_version_localization put in the payload,  *)
(* for the shipped entries and for metadata dicts with strings around the  *)
(* documented limits, or without the key.                                  *)

\* A length of -1 stands for a dict without the key.
Missing == 0 - 1

TestStr(field, n) == Text("test", field, n)

TestLengths(limit) == {Missing, 0, 1, limit - 1, limit, limit + 1, limit + 500}

DESCRIPTION_MAX == 4000

TestDict(d, k) ==
    [f \in ({"whatsNew", "promotionalText"}
              \cup (IF d = Missing THEN {} ELSE {"description"})
              \cup (IF k = Missing THEN {} ELSE {"keywords"})) |->
        CASE f = "description" -> TestStr(f, d)
          [] f = "keywords" -> TestStr(f, k)
          [] OTHER -> TestStr(f, 1)]

MetadataInputs ==
    {METADATA[k] : k \in DOMAIN METADATA}
        \cup {TestDict(d, k) : d \in TestLengths(DESCRIPTION_MAX),
                               k \in TestLengths(KEYWORDS_MAX)}

PayloadInit ==
    /\ RunIdle
    /\ \E fn \in {"update", "create"}, metadata \in MetadataInputs :
          args = [fn |-> fn, metadata |-> metadata]
    /\ ret = <<>>

UpdatePayloadCall ==
    /\ args.fn = "update"
    /\ Call(update_version_attributes(args.metadata))

CreatePayloadCall ==
    /\ args.fn = "create"
    /\ Call(create_version_attributes("xx-YY", args.metadata))

PayloadNext == UpdatePayloadCall \/ CreatePayloadCall

PayloadSpec == PayloadInit /\ [][PayloadNext]_vars

-----------------------------------------------------------------------------
(* Properties of a metadata run (Spec).                                    *)

\* The requests of the run in progress, in order.
ThisRun == SelectSeq(requests, LAMBDA q : q.run = run)

IsVersionWrite(q) ==
    q.resource = "appStoreVersionLocalizations" /\ q.method # "GET"

VersionWritesFor(R, l) ==
    {k \in 1..Len(R) : IsVersionWrite(R[k]) /\ R[k].for_locale = l}

OutcomesOf(r, kind) ==
    {returned[k] : k \in {j \in 1..Len(returned) :
                            returned[j].run = r /\ returned[j].kind = kind}}

InLoop == pc \in {"app_info_localization", "version_localization"}

\* C1: once the loop has passed a locale exactly one version-localization
\* write has been issued for it (none before the loop reaches it, never a
\* second one), so a run that reaches the summary has issued exactly one per
\* locale; the write is a PATCH to the mapped record id when the locale is a
\* key of existing_version, else a POST carrying the locale and version_id.
C1_OneVersionWritePerLocale ==
    LET R == ThisRun
    IN  \A k \in 1..NumLocales :
          LET l == RunLocales[k]
              W == VersionWritesFor(R, l)
          IN  /\ Cardinality(W) <= 1
              /\ (k < i \/ pc = "summary") => Cardinality(W) = 1
              /\ (k > i \/ (k = i /\ InLoop)) => W = {}
              /\ \A w \in W :
                    IF l \in DOMAIN existing_version
                    THEN /\ R[w].method = "PATCH"
                         /\ R[w].id = existing_version[l]
                    ELSE /\ R[w].method = "POST"
                         /\ R[w].id = None
                         /\ R[w].body.attributes.locale = l
                         /\ R[w].body.appStoreVersion = version_id

C1_Witness ==
    /\ pc = "summary"
    /\ \E a, b \in 1..Len(ThisRun) :
          /\ ThisRun[a].method = "PATCH"
          /\ ThisRun[b].method = "POST"

\* C2 as stated: in a completed second run every locale and kind whose
\* helper returned True in the first run is PATCHed.
C2_Original ==
    (run = "second" /\ pc = "summary") =>
        \A kind \in {"app_info", "version"} :
            \A o \in OutcomesOf("first", kind) :
                o.value =>
                    \E k \in 1..Len(ThisRun) :
                        /\ ThisRun[k].method = "PATCH"
                        /\ ThisRun[k].for_locale = o.locale
                        /\ ThisRun[k].resource =
                               IF kind = "app_info" THEN "appInfoLocalizations"
                               ELSE "appStoreVersionLocalizations"

\* C2 (amended): for the version kind, a locale whose write succeeded in the
\* first run is only ever PATCHed in the second run, exactly once when that
\* run reaches the summary; a POST is only issued for a locale without a
\* record under version_id, and the remote never holds two records of one
\* (version, locale).
C2_VersionUpsertIdempotent ==
    LET locs == remote.appStoreVersionLocalizations
    IN  /\ run = "second" =>
              \A o \in OutcomesOf("first", "version") :
                  o.value =>
                      LET W == VersionWritesFor(ThisRun, o.locale)
                      IN  /\ \A w \in W : ThisRun[w].method = "PATCH"
                          /\ pc = "summary" => Cardinality(W) = 1
        /\ (pc = "version_localization"
                /\ RunLocales[i] \notin DOMAIN existing_version) =>
               ~HasLoc(locs, version_id, RunLocales[i])
        /\ \A a, b \in 1..Len(locs) :
               (locs[a].parent = locs[b].parent /\ locs[a].locale = locs[b].locale)
                   => a = b

C2_Witness ==
    /\ run = "second"
    /\ pc = "summary"
    /\ \E o \in OutcomesOf("first", "version") : o.value /\ o.op = "create"
    /\ \E o \in OutcomesOf("first", "version") : o.value /\ o.op = "update"

\* C3 as stated: every app-info helper call issues a PATCH (locale in the
\* fetched mapping) or a POST (otherwise) for the app-info localization.
C3_Original ==
    \A o \in OutcomesOf(run, "app_info") :
        \E k \in 1..Len(ThisRun) :
            /\ ThisRun[k].resource = "appInfoLocalizations"
            /\ ThisRun[k].for_locale = o.locale
            /\ ThisRun[k].method =
                   IF o.locale \in DOMAIN existing_app_info THEN "PATCH" ELSE "POST"

\* C3 (amended): the app-info half calls the update helper when the locale
\* is in existing_app_info and the create helper otherwise, but neither
\* issues a request: the only app-info localization request is the
\* listing GET, and every call returns True.
C3_AppInfoHelpersAreNoOps ==
    /\ \A k \in 1..Len(requests) :
          requests[k].resource = "appInfoLocalizations" =>
              requests[k].method = "GET" /\ requests[k].for_locale = None
    /\ \A o \in OutcomesOf(run, "app_info") :
          /\ o.value = TRUE
          /\ o.op = "update" <=> o.locale \in DOMAIN existing_app_info
          /\ o.op \in {"update", "create"}
    /\ \A k \in 1..NumLocales :
          ((k < i /\ pc # "aborted") \/ (k = i /\ pc \in {"version_localization", "summary"}))
              => \E o \in OutcomesOf(run, "app_info") : o.locale = RunLocales[k]

C3_Witness ==
    /\ \E o \in OutcomesOf(run, "app_info") : o.op = "update"
    /\ \E o \in OutcomesOf(run, "app_info") : o.op = "create"

\* C4 as stated: no failed write halts the run, so a run that has issued a
\* write is never ended by an exception.
C4_FailedWriteNeverHalts ==
    pc = "aborted" => \A k \in 1..Len(ThisRun) : ThisRun[k].method = "GET"

\* C5: a listing of localizations, PATCH or POST is only issued after the
\* three resolution GETs (apps, appInfos, appStoreVersions, in that order)
\* each returned a non-empty list and set app_id, app_info_id and
\* version_id; a failed resolution step ends the run at that request.
C5_ResolutionPrecedesWrites ==
    LET R == ThisRun
        Resolved(q) ==
            \/ q.method # "GET"
            \/ q.resource \in {"appInfoLocalizations", "appStoreVersionLocalizations"}
        Stops(n) == Len(R) <= n /\ (Len(R) = n => pc = "aborted")
    IN  /\ \A k \in 1..Len(R) :
              Resolved(R[k]) =>
                  /\ k > 3
                  /\ R[1].method = "GET" /\ R[1].resource = "apps"
                  /\ R[2].method = "GET" /\ R[2].resource = "appInfos"
                  /\ R[3].method = "GET" /\ R[3].resource = "appStoreVersions"
                  /\ app_id # None /\ app_info_id # None /\ version_id # None
        /\ \A k \in 1..Min(3, Len(R)) : ~Resolved(R[k])
        /\ (pc = "aborted" /\ version_id = None) => Len(R) <= 3
        /\ remote.apps = <<>> => Stops(1)
        /\ remote.appInfos = <<>> => Stops(2)
        /\ remote.appStoreVersions = <<>> => Stops(3)

C5_Witness ==
    /\ pc = "aborted"
    /\ remote.appInfos # <<>>
    /\ remote.appStoreVersions = <<>>
    /\ Len(ThisRun) = 3

-----------------------------------------------------------------------------
(* Properties of the resolver (ResolverSpec).                              *)

C6_Editable ==
    {"PREPARE_FOR_SUBMISSION", "WAITING_FOR_REVIEW", "IN_REVIEW",
     "PENDING_DEVELOPER_RELEASE", "DEVELOPER_REJECTED", "REJECTED"}

C6_EditableAt(data) == {j \in 1..Len(data) : StateOf(data[j]) \in C6_Editable}

\* C6: on a non-empty list get_app_info and get_app_store_version return
\* the id of the first record, in list order, whose state is editable, and
\* the id of the first record when none is; never a non-editable record
\* while an editable one exists.
C6_FirstEditableElseFirst ==
    \A k \in 1..Len(ret) :
        args.data # <<>> =>
            LET data == args.data
                E == C6_EditableAt(data)
            IN  /\ ~ret[k].raised
                /\ IF E # {}
                   THEN \E j \in E : /\ \A m \in E : j <= m
                                     /\ ret[k].value = data[j].id
                   ELSE ret[k].value = data[1].id
                /\ E # {} => \E j \in E : ret[k].value = data[j].id

C6_Witness ==
    /\ ret # <<>>
    /\ Len(args.data) >= 3
    /\ 1 \notin C6_EditableAt(args.data)
    /\ 2 \in C6_EditableAt(args.data)
    /\ 3 \in C6_EditableAt(args.data)
    /\ ret[1].value = args.data[2].id

-----------------------------------------------------------------------------
(* Properties of the version-localization payloads (PayloadSpec).          *)

\* C7 as stated: the description sent has at most 4000 characters, a longer
\* one being cut to its first 4000.
C7_DescriptionAtMost4000 ==
    \A k \in 1..Len(ret) :
        LET given == Get(args.metadata, "description")
            sent == ret[k].description
        IN  /\ StrLen(sent) <= 4000
            /\ StrLen(given) > 4000 =>
                   (sent.text = given.text /\ sent.lo = given.lo
                        /\ StrLen(sent) = 4000)

\* C8: the keywords sent by update_ and create_version_localization have at
\* most 100 characters: the metadata's keywords unchanged when they have at
\* most 100 characters ("" when the key is missing), else their first 100.
C8_KeywordsAtMost100 ==
    \A k \in 1..Len(ret) :
        LET given == Get(args.metadata, "keywords")
            sent == ret[k].keywords
        IN  /\ StrLen(sent) <= 100
            /\ StrLen(given) <= 100 => sent = given
            /\ StrLen(given) > 100 =>
                   (sent.text = given.text /\ sent.lo = given.lo
                        /\ StrLen(sent) = 100)

C8_Witness ==
    /\ Len(ret) >= 1
    /\ args.fn = "update"
    /\ StrLen(Get(args.metadata, "keywords")) > 100
    /\ StrLen(ret[1].keywords) = 100

-----------------------------------------------------------------------------
(* Properties of get_metadata_for_locale (LookupSpec).                     *)

\* C9: for every locale of LOCALES and every other locale string,
\* get_metadata_for_locale returns an entry of the table without raising,
\* and a second call with the same locale returns the same entry.
C9_LookupTotal ==
    \A k \in 1..Len(ret) :
        /\ ~ret[k].raised
        /\ \E key \in DOMAIN args.table : ret[k].value = args.table[key]
        /\ ret[k] = ret[1]

C9_Witness ==
    /\ Len(ret) = 2
    /\ args.locale = "xx-YY"
    /\ ret[2].value = args.table["en-US"]

C10_Base(l) ==
    CASE l \in {"en-AU", "en-CA", "en-GB"} -> "en-US"
      [] l = "es-MX" -> "es-ES"
      [] l = "fr-CA" -> "fr-FR"
      [] l = "pt-PT" -> "pt-BR"
      [] OTHER -> None

\* C10: a locale with its own table entry resolves to that entry; without
\* one it resolves to the entry of its mapped base locale when the table
\* has it; every other locale resolves to the en-US entry.
C10_FallbackOrder ==
    \A k \in 1..Len(ret) :
        LET table == args.table
            l == args.locale
        IN  ret[k].value =
                IF l \in DOMAIN table THEN table[l]
                ELSE IF C10_Base(l) # None /\ C10_Base(l) \in DOMAIN table
                     THEN table[C10_Base(l)]
                     ELSE table["en-US"]

C10_Witness ==
    /\ Len(ret) >= 1
    /\ args.locale = "pt-PT"
    /\ "pt-PT" \notin DOMAIN args.table
    /\ "pt-BR" \in DOMAIN args.table
    /\ ret[1].value = args.table["pt-BR"]
    /\ ret[1].value # args.table["en-US"]

\* On the table as shipped, no translation removed.
C11_Shipped == args.table = METADATA

\* C11 as stated: "es-MX" is not a key of METADATA, so the lookup of
\* "es-MX" on the shipped table goes through locale_mapping to the "es-ES"
\* entry.
C11_Original ==
    (C11_Shipped /\ args.locale = "es-MX" /\ Len(ret) >= 1) =>
        /\ "es-MX" \notin DOMAIN args.table
        /\ ret[1] = Return(args.table["es-ES"])

\* C11: every locale of LOCALES, "es-MX" included, is a key of the shipped
\* METADATA and resolves to its own entry without any fallback; the "es-MX"
\* entry carries the same texts as the "es-ES" entry.
C11_EveryLocaleHasOwnEntry ==
    (C11_Shipped /\ Len(ret) >= 1) =>
        /\ \A k \in 1..Len(LOCALES) : LOCALES[k] \in DOMAIN args.table
        /\ args.locale \in LocaleSetAll => ret[1] = Return(args.table[args.locale])
        /\ args.locale = "es-MX" => ret[1].value = args.table["es-ES"]

C11_Witness ==
    /\ C11_Shipped
    /\ args.locale = "es-MX"
    /\ "es-MX" \in DOMAIN args.table
    /\ Len(ret) >= 1
    /\ ret[1] = Return(METADATA["es-MX"])

\* The outcomes the helpers returned to main() in the run in progress.
C12_Returned(value) ==
    {k \in 1..Len(returned) :
        returned[k].run = run /\ returned[k].value = value}

\* C12: at the head of the pass for the i-th locale success_count +
\* fail_count is 2 * (i - 1), between the two halves of a pass it is one
\* more, at the summary it is 2 * the number of locales; each counter is the
\* number of outcomes of its kind returned so far, none counted twice or
\* dropped.
C12_OutcomeAccounting ==
    /\ success_count = Cardinality(C12_Returned(TRUE))
    /\ fail_count = Cardinality(C12_Returned(FALSE))
    /\ pc = "app_info_localization" => success_count + fail_count = 2 * (i - 1)
    /\ pc = "version_localization" => success_count + fail_count = 2 * (i - 1) + 1
    /\ pc = "summary" => success_count + fail_count = 2 * Len(RunLocales)
    /\ pc \in {"get_app_id", "get_app_info", "get_app_store_version",
               "get_existing_localizations",
               "get_existing_version_localizations"} =>
           success_count + fail_count = 0

C12_Witness ==
    /\ pc = "summary"
    /\ fail_count >= 1
    /\ success_count >= Len(RunLocales) + 1
    /\ success_count + fail_count = 2 * Len(RunLocales)

\* The positions in the run's requests of the listing of one kind.
C20_Listings(R, resource) ==
    {k \in 1..Len(R) : R[k].method = "GET" /\ R[k].resource = resource}

C20_Fetched ==
    LET R == ThisRun
    IN  /\ \A resource \in {"appInfoLocalizations", "appStoreVersionLocalizations"} :
              LET G == C20_Listings(R, resource)
              IN  /\ Cardinality(G) <= 1
                  /\ (InLoop \/ pc = "summary") => Cardinality(G) = 1
                  /\ \A g \in G, k \in 1..Len(R) :
                        R[k].for_locale # None => g < k
        /\ pc = "summary" => Len(R) = 5 + Len(RunLocales)

\* C20: each of the two listings is requested at most once in a run and
\* exactly once by the time the loop starts, before every per-locale
\* request; a pass of the loop leaves existing_app_info and existing_version
\* as they were fetched; a run that reaches the summary has issued
\* 5 + |locales| requests.
C20_ListingsFetchedOnce ==
    /\ [] C20_Fetched
    /\ [][InLoop => /\ existing_app_info' = existing_app_info
                    /\ existing_version' = existing_version]_vars

C20_Witness ==
    /\ pc = "summary"
    /\ Len(ThisRun) = 5 + Len(RunLocales)
    /\ \E k \in 1..Len(ThisRun) :
          /\ ThisRun[k].method = "POST"
          /\ ThisRun[k].for_locale \notin DOMAIN existing_version
    /\ DOMAIN existing_version # {}

-----------------------------------------------------------------------------
(* upload-screenshots-api.py: the token cache.  time.time() is a float;    *)
(* the clock counts ticks of 1/TicksPerSecond s, so int() truncates.       *)

TicksPerSecond == 2

Seconds(s) == s * TicksPerSecond

\* int(time.time()) at clock reading `now`.
int(now) == now \div TicksPerSecond

TOKEN_VALIDITY == 1200

REFRESH_MARGIN == 60


\* `_cached_token and time.time() < _token_expiry - 60`
\* Variant: the cache is used until the very expiry.
CacheFresh_NoMargin(cached, expiry, now) ==
    cached # NoToken /\ now < Seconds(expiry)

CacheFresh(cached, expiry, now) ==
    cached # NoToken /\ now < Seconds(expiry - REFRESH_MARGIN)

generate_token_AlwaysSigns(cached, expiry, now, key_readable, sig) ==
    IF ~key_readable
    THEN [result |-> Raise("FileNotFoundError"),
          cached |-> cached, expiry |-> expiry]
    ELSE LET exp == int(now) + TOKEN_VALIDITY
             token == Token(int(now), exp, sig)
         IN  [result |-> Return(token), cached |-> token, expiry |-> exp]

\* generate_token(): what it returns or raises and the cache it leaves.
generate_token(cached, expiry, now, key_readable, sig) ==
    IF CacheFresh(cached, expiry, now)
    THEN [result |-> Return(cached), cached |-> cached, expiry |-> expiry]
    ELSE IF ~key_readable
         THEN [result |-> Raise("FileNotFoundError"),
               cached |-> cached, expiry |-> expiry]
         ELSE LET exp == int(now) + TOKEN_VALIDITY
                  token == Token(int(now), exp, sig)
              IN  [result |-> Return(token), cached |-> token, expiry |-> exp]

MaxTokenCalls == 3

\* Time that passes between two API requests of the process.
Delays ==
    {0, 1, Seconds(REFRESH_MARGIN), Seconds(TOKEN_VALIDITY - REFRESH_MARGIN) - 1,
     Seconds(TOKEN_VALIDITY - REFRESH_MARGIN), Seconds(TOKEN_VALIDITY)}

TokenInit ==
    /\ MainNotStarted
    /\ pc = "api_request"
    /\ \E key_readable \in BOOLEAN, phase \in 0..(TicksPerSecond - 1) :
          /\ args = [key_readable |-> key_readable]
          /\ clock = phase
    /\ ret = <<>>
    /\ TokenIdle
    /\ PrepIdle
    /\ UploadIdle
    /\ inflight = NoCall
    /\ ApiIdle

\* The process works on something else for a while.
Elapse ==
    /\ pc = "api_request"
    /\ Len(ret) < MaxTokenCalls
    /\ \E d \in Delays : clock' = clock + d
    /\ pc' = "generate_token"
    /\ UNCHANGED <<metaVars, args, ret, tokenVars, prepVars, uploadVars, inflight, apiVars>>

\* api_request() calls generate_token(); an exception ends the process.
GenerateToken ==
    /\ pc = "generate_token"
    /\ LET r == generate_token(_cached_token, _token_expiry, clock,
                               args.key_readable, Len(ret) + 1)
       IN  /\ ret' = Append(ret, [at |-> clock, result |-> r.result])
           /\ _cached_token' = r.cached
           /\ _token_expiry' = r.expiry
           /\ pc' = IF r.result.raised THEN "aborted" ELSE "api_request"
    /\ UNCHANGED <<metaVars, args, clock, prepVars, uploadVars, inflight, apiVars>>

TokenNext == Elapse \/ GenerateToken

TokenSpec == TokenInit /\ [][TokenNext]_vars

\* C13: a generate_token call made while a token is cached and the clock
\* is before (cached expiry - 60 s) returns the cached token and leaves
\* _cached_token and _token_expiry as they were; only a call made with no
\* token cached, or at or past that instant, signs a new token (or raises
\* when the key cannot be read).
C13_SignsOnlyWhenStale ==
    [][pc = "generate_token" =>
         LET stale == \/ _cached_token = NoToken
                      \/ clock >= (_token_expiry - 60) * TicksPerSecond
             out == ret'[Len(ret')].result
         IN  IF stale
             THEN \/ out.raised
                  \/ /\ out.value.sig = Len(ret')
                     /\ out.value.exp = (clock \div TicksPerSecond) + 1200
             ELSE /\ out = Return(_cached_token)
                  /\ _cached_token' = _cached_token
                  /\ _token_expiry' = _token_expiry]_vars

C13_Witness ==
    /\ Len(ret) = 3
    /\ \A k \in 1..3 : ~ret[k].result.raised
    /\ ret[2].at > ret[1].at
    /\ ret[2].result.value = ret[1].result.value
    /\ ret[3].at = ret[1].at + Seconds(TOKEN_VALIDITY - REFRESH_MARGIN)
    /\ ret[3].result.value.sig = 3
    /\ _cached_token = ret[3].result.value

\* C26: every token generate_token has returned had, at the time of that
\* call, more than 60 seconds left before its exp claim; and the cache is
\* either empty with _token_expiry = 0 or holds a token whose exp claim is
\* _token_expiry.
C26_ReturnedTokenHasMargin ==
    /\ \A k \in 1..Len(ret) :
          ~ret[k].result.raised =>
             ret[k].result.value.exp * TicksPerSecond - ret[k].at
                > 60 * TicksPerSecond
    /\ IF _cached_token = NoToken
       THEN _token_expiry = 0
       ELSE _cached_token.exp = _token_expiry

\* A cached token is handed out one tick before its margin is used up, and
\* the next call, at the margin, signs a new one.
C26_Witness ==
    /\ Len(ret) = 3
    /\ \A k \in 1..3 : ~ret[k].result.raised
    /\ ret[2].result.value = ret[1].result.value
    /\ ret[2].result.value.exp * TicksPerSecond - ret[2].at
          = 60 * TicksPerSecond + 1
    /\ ret[3].at = ret[2].at + 1
    /\ ret[3].result.value.sig = 3
    /\ _token_expiry = ret[3].result.value.exp

-----------------------------------------------------------------------------
(* upload-metadata.py: get_headers() / generate_jwt_token().  Every helper *)
(* calls get_headers() before its request; there is no module-level token. *)

JWT_VALIDITY == 1200

\* generate_jwt_token(): reads the key, signs a token for the present second.
generate_jwt_token(now, key_readable, sig) ==
    IF ~key_readable
    THEN Raise("FileNotFoundError")
    ELSE Return(Token(int(now), int(now) + JWT_VALIDITY, sig))

\* get_headers(): the Authorization header carries the token just signed.
get_headers(now, key_readable, sig) ==
    LET token == generate_jwt_token(now, key_readable, sig)
    IN  IF token.raised THEN token
        ELSE Return([Authorization |-> token.value])

HeadersInit ==
    /\ MainNotStarted
    /\ pc = "helper"
    /\ \E key_readable \in BOOLEAN, phase \in 0..(TicksPerSecond - 1) :
          /\ args = [key_readable |-> key_readable]
          /\ clock = phase
    /\ ret = <<>>
    /\ TokenIdle
    /\ PrepIdle
    /\ UploadIdle
    /\ inflight = NoCall
    /\ ApiIdle

\* Time passes between two requests of the run.
BetweenRequests ==
    /\ pc = "helper"
    /\ Len(ret) < MaxTokenCalls
    /\ \E d \in Delays : clock' = clock + d
    /\ pc' = "get_headers"
    /\ UNCHANGED <<metaVars, args, ret, tokenVars, prepVars, uploadVars, inflight, apiVars>>

\* headers = get_headers() at the top of a helper; an exception ends main().
GetHeaders ==
    /\ pc = "get_headers"
    /\ LET r == get_headers(clock, args.key_readable, Len(ret) + 1)
       IN  /\ ret' = Append(ret, [at |-> clock, result |-> r])
           /\ pc' = IF r.raised THEN "aborted" ELSE "helper"
    /\ UNCHANGED <<metaVars, args, clock, tokenVars, prepVars, uploadVars, inflight, apiVars>>

HeadersNext == BetweenRequests \/ GetHeaders

HeadersSpec == HeadersInit /\ [][HeadersNext]_vars

\* C14: two consecutive requests of a run, the second made more than 60 s
\* before the expiry of the token the first carried, carry the same token.
C14_TokenReusedAcrossRequests ==
    \A k \in 1..(Len(ret) - 1) :
        (/\ ~ret[k].result.raised
         /\ ~ret[k + 1].result.raised
         /\ ret[k + 1].at < Seconds(ret[k].result.value.Authorization.exp
                                    - REFRESH_MARGIN)) =>
            ret[k + 1].result.value.Authorization
                = ret[k].result.value.Authorization

-----------------------------------------------------------------------------
(* upload-screenshots.py: prepare_locale_screenshots.                      *)

MAX_IPHONE_SCREENSHOTS == 10

MAX_IPAD_SCREENSHOTS == 10

\* range(a, b)
range(a, b) == [k \in 1..(IF b > a THEN b - a ELSE 0) |-> a + k - 1]

\* An output file f"{index:02d}_{device}_{i}.png" (from the locale's i-th
\* template) or f"{index:02d}_{device}_generic{i}.png" (from the i-th generic
\* image).
File(index, device, kind, n) ==
    [index |-> index, device |-> device, kind |-> kind, n |-> n]

\* One device class of prepare_locale_screenshots: the localized templates
\* that exist, then the generic images that exist among the first
\* min(stop, remaining + 1) - 1; the index goes up by one per file written.
DeviceOutputs_IgnoresLimit(device, svgs, pngs, max, stop) ==
    LET T == SelectSeq(<<1, 2, 3>>, LAMBDA n : n \in svgs)
        G == SelectSeq(range(1, stop), LAMBDA n : n \in pngs)
    IN  [k \in 1..Len(T) |-> File(k, device, "template", T[k])]
        \o [k \in 1..Len(G) |-> File(Len(T) + k, device, "generic", G[k])]

DeviceOutputs(device, svgs, pngs, max, stop) ==
    LET T == SelectSeq(<<1, 2, 3>>, LAMBDA n : n \in svgs)
        screenshot_index == Len(T) + 1
        remaining_slots == max - (screenshot_index - 1)
        G == SelectSeq(range(1, Min(stop, remaining_slots + 1)),
                       LAMBDA n : n \in pngs)
    IN  [k \in 1..Len(T) |-> File(k, device, "template", T[k])]
        \o [k \in 1..Len(G) |->
               File(screenshot_index + k - 1, device, "generic", G[k])]

\* The files prepare_locale_screenshots writes, in the order it writes
\* them, given which {n}.svg / ipad-{n}.svg of the locale and which {n}.png /
\* ipad-{n}.png generic images exist.
prepare_locale_screenshots(svgs, pngs, ipad_svgs, ipad_pngs) ==
    DeviceOutputs("iPhone67", svgs, pngs, MAX_IPHONE_SCREENSHOTS, 13)
    \o DeviceOutputs("iPadPro129", ipad_svgs, ipad_pngs, MAX_IPAD_SCREENSHOTS, 5)

TemplateSets == SUBSET {1, 2, 3}

\* No conversion fails: the function returns after writing every file.
PrepareInit ==
    /\ RunIdle
    /\ \/ \E svgs \in TemplateSets, pngs \in SUBSET (1..12),
             ipad \in {{}, 1..3} :
             args = [svgs |-> svgs, pngs |-> pngs,
                     ipad_svgs |-> ipad, ipad_pngs |-> {n \in 1..4 : ipad # {}}]
       \/ \E ipad_svgs \in TemplateSets, ipad_pngs \in SUBSET (1..4),
             phone \in {{}, 1..3} :
             args = [svgs |-> phone, pngs |-> {n \in 1..12 : phone # {}},
                     ipad_svgs |-> ipad_svgs, ipad_pngs |-> ipad_pngs]
    /\ ret = <<>>

PrepareCall ==
    Call(prepare_locale_screenshots(args.svgs, args.pngs,
                                    args.ipad_svgs, args.ipad_pngs))

PrepareSpec == PrepareInit /\ [][PrepareCall]_vars

\* The files of one device class among those written, in writing order.
C17_Of(files, device) == SelectSeq(files, LAMBDA f : f.device = device)

\* C17: whatever templates and generic images exist, a call writes at most
\* 10 iPhone and at most 10 iPad files; within a device class the k-th file
\* written has index k; every template output has a lower index than every
\* generic output.
C17_SlotsFilledInOrder ==
    \A c \in 1..Len(ret) :
        \A device \in {"iPhone67", "iPadPro129"} :
            LET F == C17_Of(ret[c], device)
            IN  /\ Len(F) <= 10
                /\ \A k \in 1..Len(F) : F[k].index = k
                /\ \A a, b \in 1..Len(F) :
                      (F[a].kind = "template" /\ F[b].kind = "generic") =>
                          F[a].index < F[b].index

C17_Witness ==
    /\ Len(ret) >= 1
    /\ args.svgs = {1, 3}
    /\ args.pngs = 1..12
    /\ Len(C17_Of(ret[1], "iPhone67")) = 10
    /\ C17_Of(ret[1], "iPhone67")[2] = File(2, "iPhone67", "template", 3)
    /\ C17_Of(ret[1], "iPhone67")[10] = File(10, "iPhone67", "generic", 8)
    /\ Len(C17_Of(ret[1], "iPadPro129")) = 7

-----------------------------------------------------------------------------
(* upload-screenshots.py: main().  pc is the position of main(); each      *)
(* magick subprocess is one step and may exit non-zero.                    *)

NumPrepLocales == 2

PrepLocales == SubSeq(LOCALES, 1, NumPrepLocales)

PrepLocaleSet == {PrepLocales[k] : k \in 1..NumPrepLocales}

\* A file left in fastlane/screenshots by an earlier run.
StaleFile == [locale |-> "en-US", file |-> File(1, "iPhone67", "generic", 1)]

\* What the call for `locale` writes, given the sources on disk.
PlanFor(locale) ==
    prepare_locale_screenshots(args.svgs[locale], args.pngs,
                               args.ipad_svgs[locale], args.ipad_pngs)

PrepInit ==
    /\ MainNotStarted
    /\ pc = "which_magick"
    /\ \E magick \in BOOLEAN, pngs \in {{}, {1, 2}}, ipad_pngs \in {{}, {1}},
          svgs \in [PrepLocaleSet -> {{}, {1, 2, 3}}],
          ipad_svgs \in [PrepLocaleSet -> {{}, {2}}] :
          args = [magick |-> magick, svgs |-> svgs, ipad_svgs |-> ipad_svgs,
                  pngs |-> pngs, ipad_pngs |-> ipad_pngs]
    /\ ret = <<>>
    /\ clock = 0
    /\ TokenIdle
    /\ UploadIdle
    /\ inflight = NoCall
    /\ ApiIdle
    /\ \E old \in BOOLEAN :
          output = [exists |-> old, dirs |-> IF old THEN {"en-US"} ELSE {},
                    files |-> IF old THEN {StaleFile} ELSE {}]
    /\ deliverfile = FALSE
    /\ locale_index = 0
    /\ written = 0

prepUnchanged == <<metaVars, args, ret, clock, tokenVars, uploadVars, inflight, apiVars>>

WhichMagick_Proceeds ==
    /\ pc = "which_magick"
    /\ pc' = "clean"
    /\ UNCHANGED <<prepUnchanged, prepVars>>

\* run_cmd("which magick"): main() returns when the tool is missing.
WhichMagick ==
    /\ pc = "which_magick"
    /\ pc' = IF args.magick THEN "clean" ELSE "returned"
    /\ UNCHANGED <<prepUnchanged, prepVars>>

\* shutil.rmtree(FASTLANE_SCREENSHOTS) when it exists, then mkdir; the loop
\* over LOCALES starts.
CleanOutput ==
    /\ pc = "clean"
    /\ output' = [exists |-> TRUE, dirs |-> {}, files |-> {}]
    /\ locale_index' = 1
    /\ pc' = IF NumPrepLocales >= 1 THEN "prepare_locale" ELSE "create_deliverfile"
    /\ UNCHANGED <<prepUnchanged, deliverfile, written>>

\* prepare_locale_screenshots(locale) is entered: locale_dst.mkdir().
EnterLocale ==
    /\ pc = "prepare_locale"
    /\ output' = [output EXCEPT !.dirs = @ \cup {PrepLocales[locale_index]}]
    /\ written' = 0
    /\ pc' = "convert"
    /\ UNCHANGED <<prepUnchanged, deliverfile, locale_index>>

Convert_IgnoresFailure ==
    /\ pc = "convert"
    /\ written < Len(PlanFor(PrepLocales[locale_index]))
    /\ \/ /\ output' = [output EXCEPT !.files = @ \cup
                 {[locale |-> PrepLocales[locale_index],
                   file |-> PlanFor(PrepLocales[locale_index])[written + 1]]}]
          /\ written' = written + 1
          /\ pc' = pc
       \/ /\ written' = written + 1
          /\ pc' = pc
          /\ UNCHANGED output
    /\ UNCHANGED <<prepUnchanged, deliverfile, locale_index>>

\* The next convert_svg_to_png / resize_png of the call: the subprocess
\* writes the file, or exits non-zero and run_cmd raises.
Convert ==
    /\ pc = "convert"
    /\ written < Len(PlanFor(PrepLocales[locale_index]))
    /\ \/ /\ output' = [output EXCEPT !.files = @ \cup
                 {[locale |-> PrepLocales[locale_index],
                   file |-> PlanFor(PrepLocales[locale_index])[written + 1]]}]
          /\ written' = written + 1
          /\ pc' = pc
       \/ /\ pc' = "aborted"
          /\ UNCHANGED <<output, written>>
    /\ UNCHANGED <<prepUnchanged, deliverfile, locale_index>>

\* prepare_locale_screenshots returns; the loop goes on or ends.
LeaveLocale ==
    /\ pc = "convert"
    /\ written = Len(PlanFor(PrepLocales[locale_index]))
    /\ locale_index' = locale_index + 1
    /\ pc' = IF locale_index < NumPrepLocales
             THEN "prepare_locale" ELSE "create_deliverfile"
    /\ UNCHANGED <<prepUnchanged, output, deliverfile, written>>

CreateDeliverfile ==
    /\ pc = "create_deliverfile"
    /\ deliverfile' = TRUE
    /\ pc' = "done"
    /\ UNCHANGED <<prepUnchanged, output, locale_index, written>>

PrepNext ==
    \/ WhichMagick
    \/ CleanOutput
    \/ EnterLocale
    \/ Convert
    \/ LeaveLocale
    \/ CreateDeliverfile

PrepSpec == PrepInit /\ [][PrepNext]_vars

\* C15: locales are handed to a pool of workers, so while one locale is
\* being prepared and another is still waiting, the waiting locale can be
\* taken up (more than one locale may be in progress at once).
C15_LocalesPreparedConcurrently ==
    (pc = "convert" /\ locale_index < NumPrepLocales) => ENABLED EnterLocale

-----------------------------------------------------------------------------
(* upload-screenshots.py: resize_png.  Python computes the scale in IEEE   *)
(* 754 binary64: a float is SIG_BITS significand bits, most significant    *)
(* first and leading bit 1, and the exponent e of the leading bit; its     *)
(* value is the sum of bits[k] * 2^(e - k + 1).  `/` and `*` round to      *)
(* nearest, ties to even; int() truncates.                                 *)

SIG_BITS == 53

Float(bits, e) == [bits |-> bits, e |-> e]

RECURSIVE Pow2(_)
\* 2^n for 0 <= n <= 30.
Pow2(n) ==
    IF n = 0 THEN 1
    ELSE LET h == Pow2(n \div 2)
         IN  IF n % 2 = 0 THEN h * h ELSE 2 * h * h

RECURSIVE Pow2Mod(_, _)
\* 2^n mod d for d < 2^15.
Pow2Mod(n, d) ==
    IF n = 0 THEN 1 % d
    ELSE LET h == Pow2Mod(n \div 2, d)
         IN  IF n % 2 = 0 THEN (h * h) % d ELSE (2 * ((h * h) % d)) % d

\* The n low binary digits of v, most significant first.
LowBits(v, n) == [k \in 1..n |-> (v \div Pow2(n - k)) % 2]

\* The binary digits of v >= 1 (below 2^30), most significant first.
BitsOfNat(v) ==
    LowBits(v, CHOOSE n \in 1..30 : Pow2(n - 1) <= v /\ v < Pow2(n))

RECURSIVE NatOfBits(_)
NatOfBits(bits) ==
    IF bits = <<>> THEN 0
    ELSE IF Len(bits) = 1 THEN bits[1]
    ELSE LET half == Len(bits) \div 2
             low == SubSeq(bits, half + 1, Len(bits))
         IN  NatOfBits(SubSeq(bits, 1, half)) * Pow2(Len(low)) + NatOfBits(low)

\* The first n binary digits of r / d after the point (0 <= r < d < 2^15),
\* and the remainder left: the k-th digit is that of the remainder after
\* k - 1 digits, (r * 2^(k-1)) mod d, doubled.
LongDiv(r, d, n) ==
    [bits |-> [k \in 1..n |-> (2 * ((r * Pow2Mod(k - 1, d)) % d)) \div d],
     rem |-> (r * Pow2Mod(n, d)) % d]

\* bits + 1, as a record with the carry out of the top digit.
Increment(bits) ==
    LET Z == {k \in 1..Len(bits) : bits[k] = 0}
    IN  IF Z = {}
        THEN [bits |-> [k \in 1..Len(bits) |-> 0], carry |-> 1]
        ELSE LET z == CHOOSE k \in Z : \A j \in Z : j <= k
             IN  [bits |-> [k \in 1..Len(bits) |->
                               IF k < z THEN bits[k]
                               ELSE IF k = z THEN 1 ELSE 0],
                  carry |-> 0]

\* Round a binary expansion (leading bit 1 at exponent e, `inexact` telling
\* whether non-zero digits follow those given) to SIG_BITS bits.
RoundToFloat(digits, inexact, e) ==
    LET sig == [k \in 1..SIG_BITS |-> IF k <= Len(digits) THEN digits[k] ELSE 0]
        guard == IF Len(digits) > SIG_BITS THEN digits[SIG_BITS + 1] ELSE 0
        sticky == \/ inexact
                  \/ \E k \in (SIG_BITS + 2)..Len(digits) : digits[k] = 1
        up == guard = 1 /\ (sticky \/ sig[SIG_BITS] = 1)
        inc == Increment(sig)
    IN  IF ~up THEN Float(sig, e)
        ELSE IF inc.carry = 1
             THEN Float(<<1>> \o SubSeq(inc.bits, 1, SIG_BITS - 1), e + 1)
             ELSE Float(inc.bits, e)

RECURSIVE true_div_from(_, _, _)
\* a / b with a and b scaled by powers of two until b <= a < 2b.
true_div_from(a, b, e) ==
    IF a < b THEN true_div_from(2 * a, b, e - 1)
    ELSE IF a >= 2 * b THEN true_div_from(a, 2 * b, e + 1)
    ELSE LET q == LongDiv(a - b, b, SIG_BITS)
         IN  RoundToFloat(<<1>> \o q.bits, q.rem # 0, e)

\* Python: a / b for positive ints.
true_div(a, b) == true_div_from(a, b, 0)

\* Digits multiplied in one step of MulDigits.
LIMB_BITS == 13

RECURSIVE MulDigits(_, _, _)
\* The binary digits of n * (the number whose digits are `bits`) for
\* n < 2^15, LIMB_BITS digits at a time from the low end, carry coming in
\* from the lower digits.
MulDigits(n, bits, carry) ==
    IF bits = <<>> THEN (IF carry = 0 THEN <<>> ELSE BitsOfNat(carry))
    ELSE LET g == Min(LIMB_BITS, Len(bits))
             front == SubSeq(bits, 1, Len(bits) - g)
             limb == NatOfBits(SubSeq(bits, Len(bits) - g + 1, Len(bits)))
             d == n * limb + carry
         IN  MulDigits(n, front, d \div Pow2(g)) \o LowBits(d % Pow2(g), g)

\* Python: n * x for a positive int n (converted exactly) and a float x.
float_mul(n, x) ==
    LET P == MulDigits(n, x.bits, 0)
    IN  RoundToFloat(P, FALSE, x.e + (Len(P) - SIG_BITS))

\* x < y for positive floats.
float_lt(x, y) ==
    \/ x.e < y.e
    \/ /\ x.e = y.e
       /\ \E k \in 1..SIG_BITS :
             /\ x.bits[k] < y.bits[k]
             /\ \A j \in 1..(k - 1) : x.bits[j] = y.bits[j]

\* Python: max(x, y)
float_max(x, y) == IF float_lt(x, y) THEN y ELSE x

\* Python: int(x) for a positive float below 2^31.
float_int(x) == IF x.e < 0 THEN 0 ELSE NatOfBits(SubSeq(x.bits, 1, x.e + 1))

\* resize_png: the -resize and -extent arguments of the magick command.
resize_png(src_w, src_h, target_width, target_height) ==
    LET scale_w == true_div(target_width, src_w)
        scale_h == true_div(target_height, src_h)
        scale == float_max(scale_w, scale_h)
        new_w == float_int(float_mul(src_w, scale))
        new_h == float_int(float_mul(src_h, scale))
    IN  [scale |-> scale, resize |-> <<new_w, new_h>>,
         extent |-> <<target_width, target_height>>]

IPHONE_SIZE == <<1320, 2868>>

IPAD_SIZE == <<2048, 2732>>

\* Widths and heights `magick identify` may report for a source image: the
\* shipped generic sizes (1206 x 2622, 2064 x 2752) and others.
SourceSizes == {1, 17, 35, 49, 600, 800, 1206, 1320, 2064, 2622, 2752, 2868}

ResizeInit ==
    /\ RunIdle
    /\ \E src_w \in SourceSizes, src_h \in SourceSizes,
          target \in {IPHONE_SIZE, IPAD_SIZE} :
          args = [src_w |-> src_w, src_h |-> src_h,
                  target_width |-> target[1], target_height |-> target[2]]
    /\ ret = <<>>

ResizeCall ==
    Call(resize_png(args.src_w, args.src_h,
                    args.target_width, args.target_height))

ResizeSpec == ResizeInit /\ [][ResizeCall]_vars

\* C16: the size floor(sw * scale) x floor(sh * scale) that resize_png asks
\* for covers the target box (at least the target in both dimensions, equal
\* to it in one) and the extent is the target box.
C16_ScaledSizeCoversTarget ==
    \A k \in 1..Len(ret) :
        /\ ret[k].resize[1] >= args.target_width
        /\ ret[k].resize[2] >= args.target_height
        /\ \/ ret[k].resize[1] = args.target_width
           \/ ret[k].resize[2] = args.target_height
        /\ ret[k].extent = <<args.target_width, args.target_height>>

-----------------------------------------------------------------------------
(* upload-screenshots-api.py: upload_screenshot(screenshot_set_id,         *)
(* file_path).  pc is the position inside the call; `requests` holds what   *)
(* it sent together with what came back.                                   *)

\* `status_code in [200, 201]`
Accepted(reply) == reply.kind = "response" /\ reply.status \in {200, 201}

\* file_data[offset:offset + length] of a file of `size` bytes, as the
\* positions lo..hi (1-based) it holds.
Chunk(size, offset, length) ==
    [lo |-> Min(offset, size) + 1, hi |-> Min(offset + length, size)]

Op(url, offset, length) == [url |-> url, offset |-> offset, length |-> length]

MaxFileSize == 4

\* Upload operations a reservation for `size` bytes may carry.
OpLists(size) ==
    {<<>>,
     <<Op("url1", 0, size)>>,
     <<Op("url1", 0, size \div 2), Op("url2", size \div 2, size - size \div 2)>>}

\* What the API may answer to the reservation POST.
ReserveReplies(size) ==
    {Response(201, [id |-> "shot1", uploadOperations |-> ops]) :
        ops \in OpLists(size)}
    \cup {Response(s, <<>>) : s \in ErrorStatuses}
    \cup {TransportError}

\* What a PUT or the commit PATCH may be answered.
WriteReplies ==
    {Response(200, <<>>)} \cup {Response(s, <<>>) : s \in ErrorStatuses}
    \cup {TransportError}

Sent(method, resource, id, body, reply) ==
    [method |-> method, resource |-> resource, id |-> id, body |-> body,
     reply |-> reply]

UploadInit ==
    /\ pc = "reserve"
    /\ run = "first"
    /\ remote = <<>>
    /\ Locals0
    /\ requests = <<>>
    /\ returned = <<>>
    /\ \E size \in 1..MaxFileSize,
          name \in {"01_iPhone67_1.png", "02_iPadPro129_generic1.png"} :
          args = [screenshot_set_id |-> "set1",
                  file |-> [name |-> name, size |-> size]]
    /\ ret = <<>>
    /\ clock = 0
    /\ TokenIdle
    /\ PrepIdle
    /\ UploadIdle
    /\ inflight = NoCall
    /\ ApiIdle

uploadUnchanged ==
    <<run, remote, app_id, app_info_id, version_id, existing_app_info,
      existing_version, i, success_count, fail_count, returned, args, clock,
      tokenVars, prepVars, inflight, apiVars>>

\* An exception of requests leaves upload_screenshot.
UploadRaises ==
    /\ ret' = <<Raise("RequestException")>>
    /\ pc' = "aborted"

UploadReturns_AlwaysTrue(value) ==
    /\ ret' = <<Return(TRUE)>>
    /\ pc' = "returned"

\* `return False` / `return response.status_code in [200, 201]`
UploadReturns(value) ==
    /\ ret' = <<Return(value)>>
    /\ pc' = "returned"

\* Step 1: api_request("POST", "/appScreenshots", reserve_data).
Reserve ==
    /\ pc = "reserve"
    /\ \E reply \in ReserveReplies(args.file.size) :
          /\ requests' = Append(requests,
                 Sent("POST", "appScreenshots", args.screenshot_set_id,
                      [fileName |-> args.file.name, fileSize |-> args.file.size],
                      reply))
          /\ IF reply.kind = "exception"
             THEN UploadRaises /\ UNCHANGED uploadVars
             ELSE IF ~Accepted(reply)
             THEN UploadReturns(FALSE) /\ UNCHANGED uploadVars
             ELSE IF reply.data.uploadOperations = <<>>
             THEN /\ UploadReturns(FALSE)
                  /\ upload_ops' = reply.data.uploadOperations
                  /\ UNCHANGED op_index
             ELSE /\ upload_ops' = reply.data.uploadOperations
                  /\ op_index' = 1
                  /\ pc' = "put"
                  /\ ret' = ret
    /\ UNCHANGED uploadUnchanged

\* Step 2: one pass of `for op in upload_ops`: requests.put(upload_url, ...).
PutChunk ==
    /\ pc = "put"
    /\ LET op == upload_ops[op_index]
       IN  \E reply \in WriteReplies :
             /\ requests' = Append(requests,
                    Sent("PUT", "uploadOperation", op.url,
                         Chunk(args.file.size, op.offset, op.length), reply))
             /\ IF reply.kind = "exception"
                THEN UploadRaises /\ UNCHANGED op_index
                ELSE IF ~Accepted(reply)
                THEN UploadReturns(FALSE) /\ UNCHANGED op_index
                ELSE /\ op_index' = op_index + 1
                     /\ pc' = IF op_index < Len(upload_ops) THEN "put" ELSE "commit"
                     /\ ret' = ret
    /\ UNCHANGED <<uploadUnchanged, upload_ops>>

\* Step 3: api_request("PATCH", f"/appScreenshots/{screenshot_id}", ...).
Commit ==
    /\ pc = "commit"
    /\ \E reply \in WriteReplies :
          /\ requests' = Append(requests,
                 Sent("PATCH", "appScreenshots", requests[1].reply.data.id,
                      [uploaded |-> TRUE,
                       sourceFileChecksum |-> <<"md5", args.file.name>>],
                      reply))
          /\ IF reply.kind = "exception"
             THEN UploadRaises
             ELSE UploadReturns(Accepted(reply))
    /\ UNCHANGED <<uploadUnchanged, uploadVars>>

UploadNext == Reserve \/ PutChunk \/ Commit

UploadSpec == UploadInit /\ [][UploadNext]_vars

C18_Ok(q) == q.reply.kind = "response" /\ q.reply.status \in {200, 201}

\* C18: the requests of one upload_screenshot call are the reservation
\* POST, then one PUT per upload operation of its answer, in order, then the
\* commit PATCH, cut short after the first request that was not answered 200
\* or 201 and after a reservation without upload operations; the PATCH is
\* sent only after an accepted reservation and accepted PUTs of all its
\* operations; the call returns True only when the PATCH was accepted.
C18_ReserveUploadCommit ==
    LET R == requests
        n == Len(R)
        ops == IF n >= 1 /\ C18_Ok(R[1])
               THEN R[1].reply.data.uploadOperations ELSE <<>>
    IN  /\ n >= 1 => R[1].method = "POST"
        /\ \A k \in 2..n :
              /\ C18_Ok(R[k - 1])
              /\ ops # <<>>
              /\ IF k <= Len(ops) + 1
                 THEN /\ R[k].method = "PUT"
                      /\ R[k].id = ops[k - 1].url
                 ELSE /\ k = Len(ops) + 2
                      /\ R[k].method = "PATCH"
                      /\ R[k].id = R[1].reply.data.id
        /\ ret = <<Return(TRUE)>> =>
              /\ n = Len(ops) + 2
              /\ R[n].method = "PATCH"
              /\ C18_Ok(R[n])
        /\ (pc = "returned" /\ n >= 1 /\ R[n].method = "PATCH") =>
              ret = <<Return(C18_Ok(R[n]))>>
        /\ (pc = "returned" /\ n >= 1 /\ R[n].method # "PATCH") =>
              ret = <<Return(FALSE)>>

C18_Witness ==
    /\ pc = "returned"
    /\ ret = <<Return(TRUE)>>
    /\ Len(requests) = 4
    /\ requests[2].method = "PUT"
    /\ requests[3].method = "PUT"
    /\ requests[3].body = Chunk(4, 2, 2)
    /\ requests[4].method = "PATCH"

-----------------------------------------------------------------------------
(* The HTTP calls of the upload scripts against a remote that may stay     *)
(* silent.  A call made with timeout=t raises requests.Timeout once the    *)
(* remote has been silent for t seconds; a call made without a timeout     *)
(* waits for as long as the remote is silent.                              *)

SESSION_TIMEOUT == 30

\* timeout=None, the default of requests.get / post / patch / delete / put.
NoTimeout == 0 - 1

\* upload-metadata.py: session.get / session.patch / session.post go through
\* session.request, which passes timeout=kwargs.pop('timeout', 30).
session_request(method) ==
    [script |-> "upload-metadata", method |-> method, timeout |-> SESSION_TIMEOUT]

\* upload-screenshots-api.py: api_request calls requests.get / post / patch /
\* delete (url, headers=headers[, json=data]).
api_request(method) ==
    [script |-> "upload-screenshots-api", method |-> method, timeout |-> NoTimeout]

\* upload-screenshots-api.py: requests.put(upload_url, headers=..., data=chunk)
requests_put ==
    [script |-> "upload-screenshots-api", method |-> "PUT", timeout |-> NoTimeout]

HttpCalls ==
    {session_request(m) : m \in {"GET", "PATCH", "POST"}}
    \cup {api_request(m) : m \in {"GET", "POST", "PATCH", "DELETE"}}
    \cup {requests_put}

\* How long the model follows a silent remote, in seconds.
MaxWait == 60

\* Seconds the call in flight has been waiting.
Waited == (clock - inflight.since) \div TicksPerSecond

HttpInit ==
    /\ MainIdle
    /\ args = None
    /\ ret = <<>>
    /\ clock = 0
    /\ TokenIdle
    /\ PrepIdle
    /\ UploadIdle
    /\ inflight = NoCall
    /\ ApiIdle

httpUnchanged == <<runVars, args, tokenVars, prepVars, uploadVars, apiVars>>

\* A script issues its next request.
IssueCall ==
    /\ inflight = NoCall
    /\ Len(ret) < MaxCalls
    /\ \E call \in HttpCalls :
          inflight' = [script |-> call.script, method |-> call.method,
                       timeout |-> call.timeout, since |-> clock]
    /\ UNCHANGED <<httpUnchanged, ret, clock>>

\* The remote stays silent for another 10 s.
RemoteSilent ==
    /\ inflight # NoCall
    /\ Waited < MaxWait
    /\ inflight.timeout = NoTimeout \/ Waited < inflight.timeout
    /\ clock' = clock + Seconds(10)
    /\ UNCHANGED <<httpUnchanged, ret, inflight>>

\* The response arrives: the call returns.
RemoteAnswers ==
    /\ inflight # NoCall
    /\ ret' = Append(ret, Return("response"))
    /\ inflight' = NoCall
    /\ UNCHANGED <<httpUnchanged, clock>>

\* The timeout of the call expires: requests raises Timeout.
TimeoutExpires ==
    /\ inflight # NoCall
    /\ inflight.timeout # NoTimeout
    /\ Waited >= inflight.timeout
    /\ ret' = Append(ret, Raise("Timeout"))
    /\ inflight' = NoCall
    /\ UNCHANGED <<httpUnchanged, clock>>

HttpNext == IssueCall \/ RemoteSilent \/ RemoteAnswers \/ TimeoutExpires

HttpSpec == HttpInit /\ [][HttpNext]_vars

\* C19: no HTTP call of the upload scripts waits on a silent remote for
\* longer than the 30 s ceiling: by then it has returned or raised.
C19_EveryCallBounded ==
    inflight # NoCall => Waited <= 30

-----------------------------------------------------------------------------
(* Properties of an asset-preparation run (PrepSpec).                      *)

\* fastlane/screenshots as an earlier run left it, or absent.
C21_Untouched ==
    \/ output = [exists |-> FALSE, dirs |-> {}, files |-> {}]
    \/ output = [exists |-> TRUE, dirs |-> {"en-US"}, files |-> {StaleFile}]

\* C21: without the magick tool main() returns right after the check: the
\* output directory is as it was (not deleted, not recreated), no locale has
\* been entered and no Deliverfile has been written.
C21_NoToolNothingDone ==
    /\ ~args.magick => pc \in {"which_magick", "returned"}
    /\ pc \in {"which_magick", "returned"} =>
          /\ C21_Untouched
          /\ deliverfile = FALSE
          /\ locale_index = 0
          /\ written = 0
    /\ pc = "returned" => ~args.magick /\ ~ENABLED PrepNext

C21_Witness ==
    /\ pc = "returned"
    /\ ~args.magick
    /\ output.exists
    /\ StaleFile \in output.files
    /\ \E l \in PrepLocaleSet : Len(PlanFor(l)) > 0

\* The files of the first n entries of the plan of the k-th locale.
C24_Files(k, n) ==
    {[locale |-> PrepLocales[k], file |-> PlanFor(PrepLocales[k])[j]] :
        j \in 1..n}

\* What the loop has written when it is at the k-th locale with n files of
\* that locale done.
C24_WrittenSoFar(k, n) ==
    UNION {C24_Files(j, Len(PlanFor(PrepLocales[j]))) : j \in 1..(k - 1)}
    \cup C24_Files(k, n)

\* C24: while a locale is being prepared the output directory holds the
\* complete outputs of the earlier locales and the files of this locale
\* converted so far, and nothing of an earlier run; after a conversion that
\* exited non-zero that is still all it holds, main() has stopped, no
\* further file is written and the Deliverfile is not created.
C24_FailedConversionAborts ==
    /\ pc \in {"convert", "aborted"} =>
          /\ output.exists
          /\ output.files = C24_WrittenSoFar(locale_index, written)
          /\ deliverfile = FALSE
    /\ pc = "aborted" =>
          /\ written < Len(PlanFor(PrepLocales[locale_index]))
          /\ ~ENABLED PrepNext

C24_Witness ==
    /\ pc = "aborted"
    /\ locale_index = 2
    /\ written = 1
    /\ Len(PlanFor(PrepLocales[1])) >= 2
    /\ Cardinality(output.files) = Len(PlanFor(PrepLocales[1])) + 1
    /\ StaleFile \notin output.files
    /\ deliverfile = FALSE

-----------------------------------------------------------------------------
(* The version-localization branch of main()'s loop in upload-metadata.py, *)
(* with the status the remote answered kept beside what the helper         *)
(* returned.  args is unused; ret is the list of writes made.              *)

WriteStatuses == {200, 201, 204, 301, 400, 401, 404, 409, 422, 500}

WriteReplyOf == {TransportError} \cup {Response(s, NoBody) : s \in WriteStatuses}

Write(fn, reply, result) == [fn |-> fn, reply |-> reply, result |-> result]

WriteInit ==
    /\ pc = "version_localization"
    /\ MainNotStarted
    /\ ScriptsIdle
    /\ args = None
    /\ ret = <<>>

writeUnchanged ==
    UNCHANGED <<run, remote, app_id, app_info_id, version_id, existing_app_info,
                existing_version, i, requests, returned, args, scriptVars>>

\* One pass of `if update_version_localization(...): success_count += 1
\* else: fail_count += 1`, or of the same with create_version_localization.
WriteCounted(fn, reply) ==
    /\ pc = "version_localization"
    /\ Len(ret) < MaxCalls
    /\ LET r == IF fn = "update" THEN update_version_localization(reply)
                ELSE create_version_localization(reply)
       IN  /\ ret' = Append(ret, Write(fn, reply, r))
           /\ IF r.raised
              THEN /\ pc' = "aborted"
                   /\ UNCHANGED <<success_count, fail_count>>
              ELSE /\ Count(r.value)
                   /\ pc' = pc
    /\ writeUnchanged

UpdateCounted == \E reply \in WriteReplyOf : WriteCounted("update", reply)

CreateCounted == \E reply \in WriteReplyOf : WriteCounted("create", reply)

WriteNext == UpdateCounted \/ CreateCounted

WriteSpec == WriteInit /\ [][WriteNext]_vars

C25_Answered == {k \in 1..Len(ret) : ret[k].reply.kind = "response"}

C25_SuccessStatus(fn) == IF fn = "update" THEN 200 ELSE 201

\* C25: a version-localization write that the remote answered never
\* raises; it returns True only on 200 (update) or 201 (create), returns
\* False on every status outside 200..299, and main() counts one success
\* for each True and one failure for each False.
C25_OnlyExpectedStatusSucceeds ==
    /\ \A k \in C25_Answered :
          /\ ~ret[k].result.raised
          /\ ret[k].result.value \in BOOLEAN
          /\ ret[k].result.value = TRUE =>
                ret[k].reply.status = C25_SuccessStatus(ret[k].fn)
          /\ ret[k].reply.status \notin 200..299 =>
                ret[k].result.value = FALSE
    /\ success_count =
          Cardinality({k \in C25_Answered : ret[k].result.value = TRUE})
    /\ fail_count =
          Cardinality({k \in C25_Answered : ret[k].result.value = FALSE})

C25_Witness ==
    /\ Len(ret) = 2
    /\ ret[1].fn = "update" /\ ret[1].reply = Response(200, NoBody)
    /\ ret[2].fn = "create" /\ ret[2].reply = Response(409, NoBody)
    /\ success_count = 1
    /\ fail_count = 1

-----------------------------------------------------------------------------
(* File names.  A name is the sequence of its characters; the preparation  *)
(* script formats it, the uploader globs and sorts the directory listing.  *)

\* ord(c) of the characters that occur in the names and patterns.
ord ==
    [c \in {"*"} |-> 42] @@ [c \in {"-"} |-> 45] @@ [c \in {"."} |-> 46] @@
    [c \in {"0"} |-> 48] @@ [c \in {"1"} |-> 49] @@ [c \in {"2"} |-> 50] @@
    [c \in {"3"} |-> 51] @@ [c \in {"4"} |-> 52] @@ [c \in {"5"} |-> 53] @@
    [c \in {"6"} |-> 54] @@ [c \in {"7"} |-> 55] @@ [c \in {"8"} |-> 56] @@
    [c \in {"9"} |-> 57] @@ [c \in {"D"} |-> 68] @@ [c \in {"E"} |-> 69] @@
    [c \in {"P"} |-> 80] @@ [c \in {"S"} |-> 83] @@ [c \in {"U"} |-> 85] @@
    [c \in {"_"} |-> 95] @@
    [c \in {"a"} |-> 97] @@ [c \in {"c"} |-> 99] @@ [c \in {"d"} |-> 100] @@
    [c \in {"e"} |-> 101] @@ [c \in {"g"} |-> 103] @@ [c \in {"h"} |-> 104] @@
    [c \in {"i"} |-> 105] @@ [c \in {"n"} |-> 110] @@ [c \in {"o"} |-> 111] @@
    [c \in {"p"} |-> 112] @@ [c \in {"r"} |-> 114]

Digits == <<"0", "1", "2", "3", "4", "5", "6", "7", "8", "9">>

RECURSIVE str(_)
\* str(n) / f"{n}" of a non-negative int.
str(n) ==
    IF n < 10 THEN <<Digits[n + 1]>>
    ELSE str(n \div 10) \o <<Digits[(n % 10) + 1]>>

\* Variant: the index is written without padding.
Format02d_NoPad(n) == str(n)

\* f"{n:02d}": at least two digits, zero-padded on the left.
Format02d(n) == IF Len(str(n)) < 2 THEN <<"0">> \o str(n) ELSE str(n)

Chars(device) ==
    IF device = "iPhone67"
    THEN <<"i", "P", "h", "o", "n", "e", "6", "7">>
    ELSE <<"i", "P", "a", "d", "P", "r", "o", "1", "2", "9">>

\* The name prepare_locale_screenshots gives an output file.
FileName(f) ==
    Format02d(f.index) \o <<"_">> \o Chars(f.device) \o <<"_">>
        \o (IF f.kind = "generic" THEN <<"g", "e", "n", "e", "r", "i", "c">>
            ELSE <<>>)
        \o str(f.n) \o <<".", "p", "n", "g">>

\* device_prefix -> display_type
DISPLAY_TYPES ==
    [iPhone67 |-> "APP_IPHONE_67", iPadPro129 |-> "APP_IPAD_PRO_3GEN_129"]

\* pattern = f"*_{device_prefix}_*.png"
pattern(device_prefix) ==
    <<"*", "_">> \o Chars(device_prefix) \o <<"_", "*", ".", "p", "n", "g">>

RECURSIVE fnmatch(_, _)
\* Whether the whole name matches the pattern; "*" matches any run of
\* characters, every other pattern character matches itself.
fnmatch(name, pat) ==
    IF pat = <<>> THEN name = <<>>
    ELSE IF Head(pat) = "*"
         THEN \E k \in 0..Len(name) :
                 fnmatch(SubSeq(name, k + 1, Len(name)), Tail(pat))
         ELSE /\ name # <<>>
              /\ Head(name) = Head(pat)
              /\ fnmatch(Tail(name), Tail(pat))

\* a < b for str: by code point at the first difference, a proper prefix
\* first.
str_lt(a, b) ==
    LET n == Min(Len(a), Len(b))
        D == {k \in 1..n : a[k] # b[k]}
    IN  IF D = {} THEN Len(a) < Len(b)
        ELSE LET k == CHOOSE d \in D : \A e \in D : d <= e
             IN  ord[a[k]] < ord[b[k]]

\* sorted(S) of a set of names.
sorted(S) ==
    LET rank == [x \in S |-> Cardinality({y \in S : str_lt(y, x)})]
    IN  [k \in 1..Cardinality(S) |-> CHOOSE x \in S : rank[x] = k - 1]

\* sorted(locale_dir.glob(pattern)) over the names in the directory.
screenshots(dir, device_prefix) ==
    sorted({name \in dir : fnmatch(name, pattern(device_prefix))})

\* Which templates and generic images exist: all shapes of the phone class
\* with few tablet shapes.
NameInit ==
    /\ RunIdle
    /\ \E svgs \in TemplateSets,
          pngs \in {1..m : m \in 0..12} \cup {{2, 11, 12}, {10, 11, 12}},
          ipad_svgs \in {{}, {2}, 1..3},
          ipad_pngs \in {{}, {3}, 1..4} :
             args = [svgs |-> svgs, pngs |-> pngs,
                     ipad_svgs |-> ipad_svgs, ipad_pngs |-> ipad_pngs]
    /\ ret = <<>>

NameSpec == NameInit /\ [][PrepareCall]_vars

\* The directory listing after a call that wrote `files`.
C23_Listing(files) == {FileName(files[k]) : k \in 1..Len(files)}

\* C23: after prepare_locale_screenshots the uploader's
\* sorted(glob("*_iPhone67_*.png")) is exactly the phone files in the order
\* they were written, which is ascending index order, and
\* sorted(glob("*_iPadPro129_*.png")) exactly the tablet files in that
\* order: every file is found by the pattern of its own device class and
\* by no other.
C23_GlobFindsEachFileOnceInOrder ==
    \A c \in 1..Len(ret) :
        /\ Cardinality(C23_Listing(ret[c])) = Len(ret[c])
        /\ \A device_prefix \in DOMAIN DISPLAY_TYPES :
              LET F == C17_Of(ret[c], device_prefix)
              IN  /\ screenshots(C23_Listing(ret[c]), device_prefix)
                        = [k \in 1..Len(F) |-> FileName(F[k])]
                  /\ \A k \in 1..Len(F) : F[k].index = k

\* Ten phone files, so that index 10 has to sort after 01..09, and tablet
\* files beside them.
C23_Witness ==
    /\ Len(ret) >= 1
    /\ Len(C17_Of(ret[1], "iPhone67")) = 10
    /\ Len(C17_Of(ret[1], "iPadPro129")) >= 2
    /\ \E k \in 1..Len(ret[1]) : ret[1][k].kind = "generic" /\ ret[1][k].n >= 10

-----------------------------------------------------------------------------
(* generate-localized-screenshots.py.  A file's content is the sequence of *)
(* its pieces: markup, line terminators, and text nodes ">text<".  output  *)
(* is the script directory, locale_index the language main() is at,        *)
(* written the number of files of that language written, ret the list of   *)
(* files written so far.                                                   *)

TextKeys ==
    {"title1", "desc1", "title2", "desc2", "title3", "desc3",
     "title_ipad3", "desc_ipad3"}

\* The English texts main() looks for.
originals ==
    [title1 |-> "WebView Tester",
     desc1 |-> "Test WKWebView &amp; SafariVC instantly",
     title2 |-> "Built-in DevTools",
     desc2 |-> "Console, Network, Storage and more",
     title3 |-> "Customize Settings",
     desc3 |-> "Fine-tune options for precise testing",
     title_ipad3 |-> "WebView Capabilities",
     desc_ipad3 |-> "Check API support and device info"]

\* The first entries of TRANSLATIONS and the Korean one; a Korean text is
\* named by its key.
TRANSLATIONS ==
    [l \in {"en-US"} |-> originals]
    @@ [l \in {"en-GB"} |-> [originals EXCEPT !.title3 = "Customise Settings"]]
    @@ [l \in {"ko"} |->
           [title1 |-> "ko title1", desc1 |-> "ko desc1",
            title2 |-> "ko title2", desc2 |-> "ko desc2",
            title3 |-> "ko title3", desc3 |-> "ko desc3",
            title_ipad3 |-> "ko title_ipad3", desc_ipad3 |-> "ko desc_ipad3"]]

\* TRANSLATIONS.items() in insertion order.
GenLangs == <<"en-US", "en-GB", "ko">>

Markup(value) == [kind |-> "markup", value |-> value]

Newline(value) == [kind |-> "newline", value |-> value]

TextNode(value) == [kind |-> "text", value |-> value]

\* f.read() of a file opened with open(path, "r"): every line terminator
\* becomes "\n".
read(content) ==
    [k \in DOMAIN content |->
        IF content[k].kind = "newline" THEN Newline("LF") ELSE content[k]]

\* f.write(text) of a file opened with open(path, "w"): every "\n" becomes
\* os.linesep.
write(text, linesep) ==
    [k \in DOMAIN text |->
        IF text[k] = Newline("LF") THEN Newline(linesep) ELSE text[k]]

\* content.replace(f">{old}<", f">{new}<")
replace(content, old, new) ==
    [k \in DOMAIN content |->
        IF content[k] = TextNode(old) THEN TextNode(new) ELSE content[k]]

\* The title and description main() substitutes in slot n of a device.
SlotKeys(device, n) ==
    IF n = 1 THEN <<"title1", "desc1">>
    ELSE IF n = 2 THEN <<"title2", "desc2">>
    ELSE IF device = "phone" THEN <<"title3", "desc3">>
    ELSE <<"title_ipad3", "desc_ipad3">>

\* Variant: the title of every slot is replaced in every file.
Localized_EveryTitle(content, lang, device, n) ==
    LET texts == TRANSLATIONS[lang]
        t1 == replace(content, originals.title1, texts.title1)
        t2 == replace(t1, originals.title2, texts.title2)
        t3 == replace(t2, originals.title3, texts.title3)
        t4 == replace(t3, originals.title_ipad3, texts.title_ipad3)
        keys == SlotKeys(device, n)
    IN  replace(t4, originals[keys[2]], texts[keys[2]])

\* The two replace calls of slot n.
Localized(content, lang, device, n) ==
    LET keys == SlotKeys(device, n)
        texts == TRANSLATIONS[lang]
        first == replace(content, originals[keys[1]], texts[keys[1]])
    IN  replace(first, originals[keys[2]], texts[keys[2]])

\* f"{i}.svg" / f"ipad-{i}.svg"
SvgName(device, n) == [device |-> device, n |-> n]

\* The k-th file of a language: 1.svg, 2.svg, 3.svg, ipad-1.svg, ...
GenSlots ==
    <<SvgName("phone", 1), SvgName("phone", 2), SvgName("phone", 3),
      SvgName("ipad", 1), SvgName("ipad", 2), SvgName("ipad", 3)>>

Stored(dir, name, content) == [dir |-> dir, name |-> name, content |-> content]

\* A source template: the slot's own title and description, and possibly
\* the text of another slot, each on a line of its own.
Template(slot, newline, extra) ==
    LET keys == SlotKeys(slot.device, slot.n)
    IN  <<Markup("<svg>"), Newline(newline),
          TextNode(originals[keys[1]]), Newline(newline),
          TextNode(originals[keys[2]]), Newline(newline)>>
        \o (IF extra = None THEN <<>>
            ELSE <<TextNode(originals[extra]), Newline(newline)>>)
        \o <<Markup("</svg>")>>

\* No template is missing.
NoSvg == SvgName("none", 0)

\* What an earlier run left in a language directory.
StaleSvg == Stored("ko", SvgName("phone", 1), <<Markup("<svg/>")>>)

\* The directory before the run: en/ with its templates (one may be
\* missing), written with some line terminator; maybe a language directory
\* of an earlier run.
GenInit ==
    /\ pc = "makedirs"
    /\ MainNotStarted
    /\ clock = 0
    /\ TokenIdle
    /\ UploadIdle
    /\ inflight = NoCall
    /\ ApiIdle
    /\ deliverfile = FALSE
    /\ locale_index = 1
    /\ written = 0
    /\ ret = <<>>
    /\ \E newline \in {"LF", "CRLF", "CR"}, linesep \in {"LF", "CRLF"},
          extra \in TextKeys \cup {None},
          missing \in {NoSvg, SvgName("phone", 2), SvgName("ipad", 3)},
          stale \in BOOLEAN :
          /\ args = [newline |-> newline, linesep |-> linesep,
                     extra |-> extra, missing |-> missing]
          /\ output =
               [exists |-> TRUE,
                dirs |-> {"en"} \cup (IF stale THEN {"ko"} ELSE {}),
                files |-> {Stored("en", GenSlots[k],
                                  Template(GenSlots[k], newline, extra)) :
                              k \in {j \in 1..6 : GenSlots[j] # missing}}
                          \cup (IF stale THEN {StaleSvg} ELSE {})]

genUnchanged ==
    UNCHANGED <<metaVars, args, clock, tokenVars, deliverfile, uploadVars,
                inflight, apiVars>>

\* os.makedirs(lang, exist_ok=True)
MakeDirs ==
    /\ pc = "makedirs"
    /\ locale_index <= Len(GenLangs)
    /\ output' = [output EXCEPT !.dirs = @ \cup {GenLangs[locale_index]}]
    /\ written' = 0
    /\ pc' = "copy"
    /\ UNCHANGED <<locale_index, ret>>
    /\ genUnchanged

\* One pass of either inner loop: read en/<name>, replace, write
\* <lang>/<name>.  open() of a missing source raises FileNotFoundError.
CopyTemplate ==
    /\ pc = "copy"
    /\ LET lang == GenLangs[locale_index]
           slot == GenSlots[written + 1]
           src == {f \in output.files : f.dir = "en" /\ f.name = slot}
       IN  IF src = {}
           THEN /\ pc' = "aborted"
                /\ UNCHANGED <<output, locale_index, written, ret>>
           ELSE LET content == read((CHOOSE f \in src : TRUE).content)
                    out == Localized(content, lang, slot.device, slot.n)
                    dst == Stored(lang, slot, write(out, args.linesep))
                IN  /\ output' =
                         [output EXCEPT !.files =
                             {f \in @ : ~(f.dir = lang /\ f.name = slot)}
                                 \cup {dst}]
                    /\ ret' = Append(ret, [dir |-> lang, name |-> slot])
                    /\ IF written + 1 < Len(GenSlots)
                       THEN /\ written' = written + 1
                            /\ UNCHANGED <<pc, locale_index>>
                       ELSE /\ written' = written + 1
                            /\ locale_index' = locale_index + 1
                            /\ pc' = "makedirs"
    /\ genUnchanged

\* After the last language main() prints the list and returns.
GenDone ==
    /\ pc = "makedirs"
    /\ locale_index > Len(GenLangs)
    /\ pc' = "done"
    /\ UNCHANGED <<output, locale_index, written, ret>>
    /\ genUnchanged

GenNext == MakeDirs \/ CopyTemplate \/ GenDone

GenSpec == GenInit /\ [][GenNext]_vars

\* The source templates as they were before the run.
C30_Sources ==
    {Stored("en", GenSlots[k], Template(GenSlots[k], args.newline, args.extra)) :
        k \in {j \in 1..6 : GenSlots[j] # args.missing}}

C30_SourceOf(slot) == Template(slot, args.newline, args.extra)

\* The files written so far into the directory of `lang`.
C30_WrittenTo(lang) == {k \in 1..Len(ret) : ret[k].dir = lang}

\* Writes go only to directories named by keys of TRANSLATIONS, en/ keeps
\* exactly its templates, a language that has been passed received the six
\* files once each, and a completed run has passed every language.
C30_Frame ==
    /\ \A k \in 1..Len(ret) :
          /\ ret[k].dir \in DOMAIN TRANSLATIONS
          /\ ret[k].name \in {GenSlots[j] : j \in 1..6}
    /\ "en" \notin DOMAIN TRANSLATIONS
    /\ {f \in output.files : f.dir = "en"} = C30_Sources
    /\ output.dirs \subseteq {"en"} \cup DOMAIN TRANSLATIONS
    /\ \A l \in 1..Len(GenLangs) :
          l < locale_index =>
             /\ Cardinality(C30_WrittenTo(GenLangs[l])) = 6
             /\ \A j \in 1..6 :
                   \E k \in C30_WrittenTo(GenLangs[l]) : ret[k].name = GenSlots[j]
    /\ pc = "done" => locale_index = Len(GenLangs) + 1

\* Piece by piece, a written file against its source: markup is kept, a
\* line terminator becomes the platform's, a text node holding the
\* original title or description of the file's own slot holds the
\* language's text, every other text node is kept.
C30_OnlySlotPairSubstituted ==
    \A k \in 1..Len(ret) :
        LET slot == ret[k].name
            lang == ret[k].dir
            keys == SlotKeys(slot.device, slot.n)
            S == C30_SourceOf(slot)
        IN  \E f \in output.files :
               /\ f.dir = lang /\ f.name = slot
               /\ Len(f.content) = Len(S)
               /\ \A p \in 1..Len(S) :
                     IF S[p].kind = "newline"
                     THEN f.content[p] = Newline(args.linesep)
                     ELSE IF \E q \in 1..2 : S[p] = TextNode(originals[keys[q]])
                     THEN \E q \in 1..2 :
                             /\ S[p] = TextNode(originals[keys[q]])
                             /\ f.content[p] =
                                   TextNode(TRANSLATIONS[lang][keys[q]])
                     ELSE f.content[p] = S[p]

C30_EnUsOutputs == {f \in output.files : f.dir = "en-US"}

\* C30 as stated: the frame, the substitution, and every en-US output
\* equal to its source template.
C30_Original ==
    /\ C30_Frame
    /\ C30_OnlySlotPairSubstituted
    /\ \A f \in C30_EnUsOutputs : f.content = C30_SourceOf(f.name)

\* C30: writes go only to directories named by keys of TRANSLATIONS, six
\* files per language, en/ is never modified, only the title/description
\* pair of the file's slot is substituted; every en-US output equals its
\* source template as read in text mode and written back, that is with
\* each line terminator replaced by the platform's, and equals the source
\* itself when the template is terminated that way already.
C30_EnUsEqualsSourceUpToNewlines ==
    /\ C30_Frame
    /\ C30_OnlySlotPairSubstituted
    /\ \A f \in C30_EnUsOutputs :
          /\ f.content = write(read(C30_SourceOf(f.name)), args.linesep)
          /\ args.newline = args.linesep => f.content = C30_SourceOf(f.name)

\* A completed run over CR LF templates on a platform whose separator is
\* LF, the templates also holding the text of another slot, and a file of
\* an earlier run replaced.
C30_Witness ==
    /\ pc = "done"
    /\ args.newline = "CRLF"
    /\ args.linesep = "LF"
    /\ args.extra = "title1"
    /\ Len(ret) = 18
    /\ StaleSvg \notin output.files
    /\ \E f \in output.files :
          /\ f.dir = "ko" /\ f.name = SvgName("ipad", 3)
          /\ f.content[3] = TextNode("ko title_ipad3")
          /\ f.content[7] = TextNode("WebView Tester")

-----------------------------------------------------------------------------
(* upload-screenshots-api.py: main() and process_locale().  remote holds   *)
(* the versions, the localizations of the version and the screenshot sets  *)
(* with their screenshots; args holds what is on the local disk.  An id of *)
(* a localization, a set or a screenshot is a tuple; <<>> stands for None. *)

NoId == <<>>

\* What get_app_store_version returns for None.
NoVersion == [id |-> None, versionString |-> None, state |-> None]

ApiVersion(id, versionString, state) ==
    [id |-> id, versionString |-> versionString, state |-> state]

\* Variant: the first listed version is taken whatever its state.
PreferredVersion_First(versions) == versions[1]

\* `for version in versions: if state == "PREPARE_FOR_SUBMISSION": return ...`
\* and, when the loop ends, `v = versions[0]`.
PreferredVersion(versions) ==
    LET hits == {k \in 1..Len(versions) :
                    versions[k].state = "PREPARE_FOR_SUBMISSION"}
    IN  IF hits # {}
        THEN versions[CHOOSE k \in hits : \A h \in hits : k <= h]
        ELSE versions[1]

\* get_app_store_version() of the uploader, after api_request returned.
uploader_get_app_store_version(reply) ==
    IF reply.kind = "exception" THEN Raise("RequestException")
    ELSE IF reply.status # 200 THEN Return(NoVersion)
    ELSE IF reply.data = <<>> THEN Return(NoVersion)
    ELSE Return(PreferredVersion(reply.data))

\* The dict a listing is folded into: item[key] -> item["id"], a later item
\* replacing an earlier one of the same key.
RECURSIVE DictOf(_, _, _)
DictOf(data, k, key) ==
    IF k = 0 THEN <<>>
    ELSE LET before == DictOf(data, k - 1, key)
         IN  [d \in DOMAIN before \cup {data[k][key]} |->
                 IF d = data[k][key] THEN data[k].id ELSE before[d]]

\* get_localizations(version_id), after api_request returned.
get_localizations(reply) ==
    IF reply.kind = "exception" THEN Raise("RequestException")
    ELSE IF reply.status # 200 THEN Return(<<>>)
    ELSE Return(DictOf(reply.data, Len(reply.data), "locale"))

\* get_screenshot_sets(localization_id), after api_request returned.
get_screenshot_sets(reply) ==
    IF reply.kind = "exception" THEN Raise("RequestException")
    ELSE IF reply.status # 200 THEN Return(<<>>)
    ELSE Return(DictOf(reply.data, Len(reply.data), "screenshotDisplayType"))

\* sets.get(display_type)
DictGet(dict, key) == IF key \in DOMAIN dict THEN dict[key] ELSE NoId

\* `needle in text` for str.
Contains(text, needle) ==
    \E k \in 0..(Len(text) - Len(needle)) :
        SubSeq(text, k + 1, k + Len(needle)) = needle

\* The locale tags the remote may hold, as the server lists them.
ApiLocales == <<"en-US", "de-DE">>

LocaleChars(locale) ==
    IF locale = "en-US" THEN <<"e", "n", "-", "U", "S">>
    ELSE <<"d", "e", "-", "D", "E">>

\* sorted(localizations.items()): the keys in str order (a key occurs once).
SortedLocales(dict) ==
    LET names == sorted({LocaleChars(l) : l \in DOMAIN dict})
    IN  [k \in 1..Len(names) |->
            CHOOSE l \in DOMAIN dict : LocaleChars(l) = names[k]]

LocalizationId(locale) == <<"localization", locale>>

SetId(localization_id, display_type) == <<"set", localization_id, display_type>>

ScreenshotId(set, r, name) == <<"screenshot", set, r, name>>

\* A screenshot record of a set: reserved in run r for a file name,
\* committed or not.
Screenshot(set, r, name, uploaded) ==
    [id |-> ScreenshotId(set, r, name), fileName |-> name,
     uploaded |-> uploaded]

ApiLocalization(locale) == [id |-> LocalizationId(locale), locale |-> locale]

ApiSet(localization_id, display_type) ==
    [id |-> SetId(localization_id, display_type),
     screenshotDisplayType |-> display_type]

\* DISPLAY_TYPES.items() in insertion order.
DevicePrefixes == <<"iPhone67", "iPadPro129">>

Phone1 == FileName(File(1, "iPhone67", "template", 1))

Phone2 == FileName(File(2, "iPhone67", "generic", 1))

Tablet1 == FileName(File(1, "iPadPro129", "template", 1))

NoDirectory == [exists |-> FALSE, names |-> {}]

Directory(names) == [exists |-> TRUE, names |-> names]

\* fastlane/screenshots/<locale> on the local disk.
LocalLayouts ==
    {[l \in {"en-US", "de-DE"} |->
         IF l = "en-US" THEN Directory({Phone1, Phone2}) ELSE NoDirectory],
     [l \in {"en-US", "de-DE"} |->
         IF l = "en-US" THEN Directory({Tablet1}) ELSE Directory({Phone1})],
     [l \in {"en-US", "de-DE"} |->
         IF l = "en-US" THEN Directory({}) ELSE Directory({Phone1, Tablet1})]}

EnUsPhoneSet == SetId(LocalizationId("en-US"), "APP_IPHONE_67")

DeDePhoneSet == SetId(LocalizationId("de-DE"), "APP_IPHONE_67")

\* The screenshot sets on the remote before the first run: none, or sets
\* with a screenshot of an earlier upload.
RemoteSets ==
    {<<>>,
     [s \in {EnUsPhoneSet} |-> <<Screenshot(s, "earlier", Phone1, TRUE)>>],
     [s \in {EnUsPhoneSet, DeDePhoneSet} |->
         IF s = EnUsPhoneSet THEN <<>>
         ELSE <<Screenshot(s, "earlier", Phone2, TRUE)>>]}

ApiVersionLists ==
    {<<>>,
     <<ApiVersion("ver1", "1.0", "REJECTED")>>,
     <<ApiVersion("ver1", "1.0", "REJECTED"),
       ApiVersion("ver2", "1.1", "PREPARE_FOR_SUBMISSION"),
       ApiVersion("ver3", "1.2", "PREPARE_FOR_SUBMISSION")>>,
     <<ApiVersion("ver1", "1.0", "WAITING_FOR_REVIEW"),
       ApiVersion("ver2", "1.1", "DEVELOPER_REJECTED")>>}

ApiInit ==
    /\ pc = "check_directory"
    /\ run = "first"
    /\ Locals0
    /\ requests = <<>>
    /\ returned = <<>>
    /\ ret = None
    /\ clock = 0
    /\ TokenIdle
    /\ PrepIdle
    /\ UploadIdle
    /\ inflight = NoCall
    /\ ApiIdle
    /\ \E versions \in ApiVersionLists, n \in 0..Len(ApiLocales),
          sets \in RemoteSets, local \in LocalLayouts, exists \in BOOLEAN :
          \* every version list with one remote and local state, and every
          \* remote and local state with one version list
          /\ \/ versions = <<ApiVersion("ver1", "1.0", "REJECTED")>>
             \/ /\ n = 1
                /\ sets = <<>>
                /\ local \in {l \in LocalLayouts : l["de-DE"] = NoDirectory}
          /\ exists \/ (n = 1 /\ sets = <<>>)
          /\ remote = [versions |-> versions,
                       localizations |->
                           [k \in 1..n |-> ApiLocalization(ApiLocales[k])],
                       sets |-> sets]
          /\ args = [SCREENSHOTS_DIR |-> exists, local |-> local]

\* A request and the status it was answered with (0: no response, the
\* call raised).
ApiCall(method, resource, id, status) ==
    [run |-> run, method |-> method, resource |-> resource, id |-> id,
     status |-> status]

ApiSend(method, resource, id, status) ==
    requests' = Append(requests, ApiCall(method, resource, id, status))

StatusOf(reply) == IF reply.kind = "exception" THEN 0 ELSE reply.status

mainLocals == <<version_id, localizations, processed, total_iphone, total_ipad,
                returned>>

localeLocals == <<existing_sets, set_id, iphone_count, ipad_count, device_index,
                  pending, shot_index>>

apiUnused == <<run, app_id, app_info_id, existing_app_info, existing_version, i,
               success_count, fail_count, args, ret, clock, tokenVars, prepVars,
               uploadVars, inflight>>

\* An exception of requests is caught nowhere: it leaves main().
ApiRaises ==
    /\ pc' = "aborted"
    /\ UNCHANGED <<mainLocals, localeLocals>>

\* The locale and localization id the loop of main() is at.
LoopLocale == SortedLocales(localizations)[processed]

LoopLocalizationId == localizations[LoopLocale]

LocaleDir == args.local[LoopLocale]

\* The files of the device class process_locale is at.
LoopScreenshots == screenshots(LocaleDir.names, DevicePrefixes[device_index])

LoopDisplayType == DISPLAY_TYPES[DevicePrefixes[device_index]]

\* What the API lists as the screenshot sets of a localization.
SetsOf(localization_id) ==
    LET types == SelectSeq(<<"APP_IPHONE_67", "APP_IPAD_PRO_3GEN_129">>,
                     LAMBDA t : SetId(localization_id, t) \in DOMAIN remote.sets)
    IN  [k \in 1..Len(types) |-> ApiSet(localization_id, types[k])]

\* `if not SCREENSHOTS_DIR.exists(): ... return`
CheckDirectory ==
    /\ pc = "check_directory"
    /\ pc' = IF args.SCREENSHOTS_DIR THEN "get_app_store_version" ELSE "returned"
    /\ UNCHANGED <<remote, requests, mainLocals, localeLocals, apiUnused>>

\* result = get_app_store_version(); `if not result: ... return`
UploaderGetAppStoreVersion ==
    /\ pc = "get_app_store_version"
    /\ \E reply \in {Response(200, remote.versions), Response(500, <<>>),
                     TransportError} :
          LET r == uploader_get_app_store_version(reply)
          IN  /\ ApiSend("GET", "appStoreVersions", <<>>, StatusOf(reply))
              /\ IF r.raised THEN ApiRaises
                 ELSE IF r.value = NoVersion
                 THEN /\ pc' = "returned"
                      /\ UNCHANGED <<mainLocals, localeLocals>>
                 ELSE /\ version_id' = r.value.id
                      /\ pc' = "get_localizations"
                      /\ UNCHANGED <<localizations, processed, total_iphone,
                                     total_ipad, returned, localeLocals>>
    /\ UNCHANGED <<remote, apiUnused>>

\* localizations = get_localizations(version_id)
GetLocalizations ==
    /\ pc = "get_localizations"
    /\ \E reply \in {Response(200, remote.localizations), Response(500, <<>>),
                     TransportError} :
          LET r == get_localizations(reply)
          IN  /\ ApiSend("GET", "appStoreVersionLocalizations", <<version_id>>,
                         StatusOf(reply))
              /\ IF r.raised THEN ApiRaises
                 ELSE /\ localizations' = r.value
                      /\ pc' = "for_locale"
                      /\ UNCHANGED <<version_id, processed, total_iphone,
                                     total_ipad, returned, localeLocals>>
    /\ UNCHANGED <<remote, apiUnused>>

Status(locale, iphone, ipad, status) ==
    [run |-> run, locale |-> locale, iphone |-> iphone, ipad |-> ipad,
     status |-> status]

\* The body of `for locale, loc_id in sorted(localizations.items())` after
\* process_locale returned (iphone, ipad, status).
Tally(locale, iphone, ipad, status) ==
    /\ total_iphone' = total_iphone + iphone
    /\ total_ipad' = total_ipad + ipad
    /\ returned' = Append(returned, Status(locale, iphone, ipad, status))
    /\ pc' = "for_locale"

\* The loop takes the next localization and calls process_locale, which
\* returns at once when the locale has no local directory.
ProcessLocale ==
    /\ pc = "for_locale"
    /\ processed < Len(SortedLocales(localizations))
    /\ processed' = processed + 1
    /\ IF ~args.local[SortedLocales(localizations)[processed + 1]].exists
       THEN /\ Tally(SortedLocales(localizations)[processed + 1], 0, 0,
                     "No directory")
            /\ UNCHANGED <<version_id, localizations, localeLocals>>
       ELSE /\ pc' = "get_screenshot_sets"
            /\ iphone_count' = 0
            /\ ipad_count' = 0
            /\ UNCHANGED <<version_id, localizations, total_iphone, total_ipad,
                           returned, existing_sets, set_id, device_index,
                           pending, shot_index>>
    /\ UNCHANGED <<remote, requests, apiUnused>>

\* After the last localization main() prints the totals.
PrintTotals ==
    /\ pc = "for_locale"
    /\ processed = Len(SortedLocales(localizations))
    /\ pc' = "done"
    /\ UNCHANGED <<remote, requests, mainLocals, localeLocals, apiUnused>>

\* existing_sets = get_screenshot_sets(localization_id)
GetScreenshotSets ==
    /\ pc = "get_screenshot_sets"
    /\ \E reply \in {Response(200, SetsOf(LoopLocalizationId)),
                     Response(500, <<>>), TransportError} :
          LET r == get_screenshot_sets(reply)
          IN  /\ ApiSend("GET", "appScreenshotSets", LoopLocalizationId,
                         StatusOf(reply))
              /\ IF r.raised THEN ApiRaises
                 ELSE /\ existing_sets' = r.value
                      /\ device_index' = 1
                      /\ pc' = "for_device"
                      /\ UNCHANGED <<mainLocals, set_id, iphone_count,
                                     ipad_count, pending, shot_index>>
    /\ UNCHANGED <<remote, apiUnused>>

\* `continue`, or the end of a pass of the device loop.
NextDevice ==
    /\ device_index' = device_index + 1
    /\ pc' = "for_device"

\* Variant: a set is created whatever existing_sets holds.
GlobDevice_AlwaysCreates ==
    /\ pc = "for_device"
    /\ device_index <= Len(DevicePrefixes)
    /\ IF LoopScreenshots = <<>>
       THEN NextDevice /\ UNCHANGED set_id
       ELSE /\ pc' = "create_screenshot_set"
            /\ UNCHANGED <<set_id, device_index>>
    /\ UNCHANGED <<remote, requests, mainLocals, existing_sets, iphone_count,
                   ipad_count, pending, shot_index, apiUnused>>

\* One device class: glob, `if not screenshots: continue`, then the set id
\* from existing_sets or the call of create_screenshot_set.
GlobDevice ==
    /\ pc = "for_device"
    /\ device_index <= Len(DevicePrefixes)
    /\ IF LoopScreenshots = <<>>
       THEN NextDevice /\ UNCHANGED set_id
       ELSE IF LoopDisplayType \in DOMAIN existing_sets
       THEN /\ set_id' = existing_sets[LoopDisplayType]
            /\ pc' = "delete_existing_screenshots"
            /\ UNCHANGED device_index
       ELSE /\ pc' = "create_screenshot_set"
            /\ UNCHANGED <<set_id, device_index>>
    /\ UNCHANGED <<remote, requests, mainLocals, existing_sets, iphone_count,
                   ipad_count, pending, shot_index, apiUnused>>

\* `return iphone_count, ipad_count, "OK"` and the tally of main().
ReturnFromLocale ==
    /\ pc = "for_device"
    /\ device_index > Len(DevicePrefixes)
    /\ Tally(LoopLocale, iphone_count, ipad_count, "OK")
    /\ UNCHANGED <<remote, requests, version_id, localizations, processed,
                   localeLocals, apiUnused>>

WithSet(sets, id) ==
    [s \in DOMAIN sets \cup {id} |-> IF s \in DOMAIN sets THEN sets[s] ELSE <<>>]

\* set_id = create_screenshot_set(localization_id, display_type), up to its
\* POST: the API creates the set (201), refuses a second set of the same
\* localization and display type (409) or fails; when the response is lost
\* the set may or may not have been created.
CreateScreenshotSet ==
    /\ pc = "create_screenshot_set"
    /\ LET id == SetId(LoopLocalizationId, LoopDisplayType)
           send(status) == ApiSend("POST", "appScreenshotSets", id, status)
       IN  IF id \in DOMAIN remote.sets
           THEN \/ /\ send(409)
                   /\ pc' = "lookup_screenshot_set"
                   /\ UNCHANGED <<remote, set_id, device_index>>
                \/ /\ send(500)
                   /\ NextDevice
                   /\ set_id' = NoId
                   /\ UNCHANGED remote
                \/ /\ send(0)
                   /\ pc' = "aborted"
                   /\ UNCHANGED <<remote, set_id, device_index>>
           ELSE \/ /\ send(201)
                   /\ remote' = [remote EXCEPT !.sets = WithSet(@, id)]
                   /\ set_id' = id
                   /\ pc' = "delete_existing_screenshots"
                   /\ UNCHANGED device_index
                \/ /\ send(500)
                   /\ NextDevice
                   /\ set_id' = NoId
                   /\ UNCHANGED remote
                \/ /\ send(0)
                   /\ pc' = "aborted"
                   /\ \/ remote' = [remote EXCEPT !.sets = WithSet(@, id)]
                      \/ remote' = remote
                   /\ UNCHANGED <<set_id, device_index>>
    /\ UNCHANGED <<mainLocals, existing_sets, iphone_count, ipad_count, pending,
                   shot_index, apiUnused>>

\* create_screenshot_set after a 409: sets = get_screenshot_sets(...);
\* return sets.get(display_type); then `if not set_id: continue`.
LookupScreenshotSet ==
    /\ pc = "lookup_screenshot_set"
    /\ \E reply \in {Response(200, SetsOf(LoopLocalizationId)),
                     Response(500, <<>>), TransportError} :
          LET r == get_screenshot_sets(reply)
          IN  /\ ApiSend("GET", "appScreenshotSets", LoopLocalizationId,
                         StatusOf(reply))
              /\ IF r.raised
                 THEN pc' = "aborted" /\ UNCHANGED <<set_id, device_index>>
                 ELSE /\ set_id' = DictGet(r.value, LoopDisplayType)
                      /\ IF DictGet(r.value, LoopDisplayType) = NoId
                         THEN NextDevice
                         ELSE /\ pc' = "delete_existing_screenshots"
                              /\ UNCHANGED device_index
    /\ UNCHANGED <<remote, mainLocals, existing_sets, iphone_count, ipad_count,
                   pending, shot_index, apiUnused>>

\* delete_existing_screenshots(set_id), its listing GET: the ids to delete,
\* or `return 0` when the status is not 200.
ListScreenshots ==
    /\ pc = "delete_existing_screenshots"
    /\ \E reply \in {Response(200, remote.sets[set_id]), Response(500, <<>>),
                     TransportError} :
          /\ ApiSend("GET", "appScreenshots", set_id, StatusOf(reply))
          /\ IF reply.kind = "exception"
             THEN pc' = "aborted" /\ UNCHANGED <<pending, shot_index>>
             ELSE LET data ==
                          IF reply.status # 200 THEN <<>>
                          ELSE [k \in 1..Len(reply.data) |-> reply.data[k].id]
                  IN  /\ pending' = data
                      /\ IF data = <<>>
                         THEN pc' = "upload_screenshot" /\ shot_index' = 1
                         ELSE pc' = "delete" /\ UNCHANGED shot_index
    /\ UNCHANGED <<remote, mainLocals, existing_sets, set_id, iphone_count,
                   ipad_count, device_index, apiUnused>>

Without(sets, set, id) ==
    [sets EXCEPT ![set] = SelectSeq(@, LAMBDA s : s.id # id)]

\* One pass of `for screenshot in data.get("data", [])`:
\* api_request("DELETE", ...), whose response is not looked at.  The API
\* deletes the record or fails; a lost response leaves either.
DeleteScreenshot ==
    /\ pc = "delete"
    /\ LET deleted == [remote EXCEPT !.sets = Without(@, set_id, Head(pending))]
           send(status) ==
               ApiSend("DELETE", "appScreenshots", Head(pending), status)
           next == /\ pending' = Tail(pending)
                   /\ IF Tail(pending) = <<>>
                      THEN pc' = "upload_screenshot" /\ shot_index' = 1
                      ELSE pc' = "delete" /\ UNCHANGED shot_index
       IN  \/ send(204) /\ remote' = deleted /\ next
           \/ send(500) /\ remote' = remote /\ next
           \/ /\ send(0)
              /\ remote' \in {deleted, remote}
              /\ pc' = "aborted"
              /\ UNCHANGED <<pending, shot_index>>
    /\ UNCHANGED <<mainLocals, existing_sets, set_id, iphone_count, ipad_count,
                   device_index, apiUnused>>

Reserved(sets, set, name, uploaded) ==
    [sets EXCEPT ![set] = Append(@, Screenshot(set, run, name, uploaded))]

\* `success = upload_screenshot(set_id, screenshot_path)` and the count.
\* The reservation is refused (no record), or a record is reserved and the
\* file committed (True), or reserved and a chunk or the commit fails
\* (False, the record stays), or one of the requests raises.
UploadScreenshot ==
    /\ pc = "upload_screenshot"
    /\ LET name == LoopScreenshots[shot_index]
           send(status) == ApiSend("POST", "appScreenshots", set_id, status)
           counted(success) ==
               /\ IF success /\ Contains(Chars(DevicePrefixes[device_index]),
                                         <<"i", "P", "h", "o", "n", "e">>)
                  THEN iphone_count' = iphone_count + 1
                  ELSE UNCHANGED iphone_count
               /\ IF success /\ ~Contains(Chars(DevicePrefixes[device_index]),
                                          <<"i", "P", "h", "o", "n", "e">>)
                  THEN ipad_count' = ipad_count + 1
                  ELSE UNCHANGED ipad_count
               /\ IF shot_index < Len(LoopScreenshots)
                  THEN /\ shot_index' = shot_index + 1
                       /\ UNCHANGED <<pc, device_index>>
                  ELSE NextDevice /\ UNCHANGED shot_index
       IN  \/ /\ send(201)
              /\ remote' = [remote EXCEPT !.sets = Reserved(@, set_id, name, TRUE)]
              /\ counted(TRUE)
           \/ /\ send(201)
              /\ remote' = [remote EXCEPT !.sets = Reserved(@, set_id, name, FALSE)]
              /\ counted(FALSE)
           \/ /\ send(500)
              /\ remote' = remote
              /\ counted(FALSE)
           \/ /\ send(0)
              /\ remote' = remote
              /\ pc' = "aborted"
              /\ UNCHANGED <<iphone_count, ipad_count, shot_index, device_index>>
           \/ /\ send(201)
              /\ remote' = [remote EXCEPT !.sets = Reserved(@, set_id, name, FALSE)]
              /\ pc' = "aborted"
              /\ UNCHANGED <<iphone_count, ipad_count, shot_index, device_index>>
    /\ UNCHANGED <<mainLocals, existing_sets, set_id, pending, apiUnused>>

\* The uploader is started again on the remote state the first run left,
\* with the same local files.
RerunUploader ==
    /\ pc = "done"
    /\ run = "first"
    /\ run' = "second"
    /\ pc' = "check_directory"
    /\ requests' = <<>>
    /\ returned' = <<>>
    /\ version_id' = None
    /\ localizations' = <<>>
    /\ processed' = 0
    /\ total_iphone' = 0
    /\ total_ipad' = 0
    /\ existing_sets' = <<>>
    /\ set_id' = NoId
    /\ iphone_count' = 0
    /\ ipad_count' = 0
    /\ device_index' = 0
    /\ pending' = <<>>
    /\ shot_index' = 0
    /\ UNCHANGED <<remote, app_id, app_info_id, existing_app_info,
                   existing_version, i, success_count, fail_count, args, ret,
                   clock, tokenVars, prepVars, uploadVars, inflight>>

ApiNext ==
    \/ CheckDirectory
    \/ UploaderGetAppStoreVersion
    \/ GetLocalizations
    \/ ProcessLocale
    \/ PrintTotals
    \/ GetScreenshotSets
    \/ GlobDevice
    \/ ReturnFromLocale
    \/ CreateScreenshotSet
    \/ LookupScreenshotSet
    \/ ListScreenshots
    \/ DeleteScreenshot
    \/ UploadScreenshot
    \/ RerunUploader

ApiSpec == ApiInit /\ [][ApiNext]_vars

-----------------------------------------------------------------------------
(* Properties of an uploader run (ApiSpec).                                *)

C29_Prepared ==
    {k \in 1..Len(remote.versions) :
        remote.versions[k].state = "PREPARE_FOR_SUBMISSION"}

C29_Selected == {k \in 1..Len(remote.versions) : remote.versions[k].id = version_id}

C28_Creates ==
    {k \in 1..Len(requests) :
        requests[k].method = "POST" /\ requests[k].resource = "appScreenshotSets"}

\* Whether the request at position j deletes from, lists or uploads to
\* the set.
C28_Touches(j, set) ==
    /\ requests[j].resource = "appScreenshots"
    /\ \/ requests[j].id = set
       \/ requests[j].method = "DELETE" /\ requests[j].id[2] = set

\* Whether the create at position k left process_locale without an id.
C28_NoId(k) ==
    \/ requests[k].status = 500
    \/ /\ requests[k].status = 409
       /\ k < Len(requests)
       /\ requests[k + 1].status = 500

\* C28: create_screenshot_set is called only for a device class with local
\* files whose display type is absent from the fetched existing_sets; a
\* run POSTs at most once per (localization, display type); the lookup GET
\* follows a create answered 409 and nothing else; the id process_locale
\* works with is the id of the set of the localization and display type at
\* hand, which exists; and after a create that yielded no id no request
\* lists, deletes from or uploads to that set.
C28_GetOrCreateSet ==
    /\ pc = "create_screenshot_set" =>
          /\ LoopDisplayType \notin DOMAIN existing_sets
          /\ LoopScreenshots # <<>>
    /\ \A k, j \in C28_Creates : requests[k].id = requests[j].id => k = j
    /\ \A k \in C28_Creates :
          /\ requests[k].id[3] \notin DOMAIN existing_sets
                \/ requests[k].id[2] # LoopLocalizationId
          /\ C28_NoId(k) =>
                \A j \in (k + 1)..Len(requests) :
                    ~C28_Touches(j, requests[k].id)
    /\ pc = "lookup_screenshot_set" =>
          /\ requests[Len(requests)].method = "POST"
          /\ requests[Len(requests)].resource = "appScreenshotSets"
          /\ requests[Len(requests)].status = 409
          /\ requests[Len(requests)].id = SetId(LoopLocalizationId, LoopDisplayType)
    /\ pc \in {"delete_existing_screenshots", "delete", "upload_screenshot"} =>
          /\ set_id = SetId(LoopLocalizationId, LoopDisplayType)
          /\ set_id \in DOMAIN remote.sets

\* A create was answered 409, the lookup found the set and the uploader
\* went on to work with it; another create of the run found no id.
C28_Witness ==
    /\ \E k \in C28_Creates :
          /\ requests[k].status = 409
          /\ Len(requests) >= k + 3
          /\ requests[k + 1].status = 200
          /\ requests[k + 2].resource = "appScreenshots"
          /\ requests[k + 2].id = requests[k].id
    /\ \E k \in C28_Creates : C28_NoId(k) /\ k < Len(requests) - 1

\* Whether a DELETE has been issued in this run for the screenshot.
C27_DeleteIssued(id) ==
    \E k \in 1..Len(requests) :
        /\ requests[k].method = "DELETE"
        /\ requests[k].resource = "appScreenshots"
        /\ requests[k].id = id

\* The local files of the device class a set belongs to.
C27_LocalFiles(set) ==
    LET locale == set[2][2]
        prefix == CHOOSE p \in DOMAIN DISPLAY_TYPES : DISPLAY_TYPES[p] = set[3]
    IN  IF args.local[locale].exists
        THEN screenshots(args.local[locale].names, prefix)
        ELSE <<>>

\* The sets a request of this run was about.
C27_Touched ==
    {requests[k].id : k \in {j \in 1..Len(requests) :
        requests[j].resource = "appScreenshotSets" /\ requests[j].method = "POST"}}
    \cup {requests[k].id : k \in {j \in 1..Len(requests) :
        requests[j].resource = "appScreenshots" /\ requests[j].method # "DELETE"}}

\* Whether a set holds two screenshots of one file name.
C27_HasDuplicates(set) ==
    \E a, b \in 1..Len(remote.sets[set]) :
        a # b /\ remote.sets[set][a].fileName = remote.sets[set][b].fileName

\* C27: when process_locale is about to send the first reservation POST of
\* a set, a DELETE has been issued for every screenshot in the set; when
\* the uploader has been run again on its own result, no set it worked on
\* holds two screenshots of one file; and no request of a run is about a
\* set of a device class without local files.
C27_DeleteBeforeUploadNoDuplicates ==
    /\ (pc = "upload_screenshot" /\ shot_index = 1) =>
          \A k \in 1..Len(remote.sets[set_id]) :
              C27_DeleteIssued(remote.sets[set_id][k].id)
    /\ (pc = "done" /\ run = "second") =>
          \A set \in C27_Touched : ~C27_HasDuplicates(set)
    /\ \A set \in C27_Touched : C27_LocalFiles(set) # <<>>

\* C22: a run that has begun to process localizations stops only after the
\* totals; the localizations processed so far are the first ones in sorted
\* order, each once; the totals are the sums of the per-locale counts; and
\* at the end every localization has been processed.
C22_LocaleFailureNeverHalts ==
    /\ (processed >= 1 /\ ~ENABLED ApiNext) =>
          /\ pc = "done"
          /\ Len(returned) = Len(SortedLocales(localizations))
    /\ \A k \in 1..Len(returned) :
          returned[k].locale = SortedLocales(localizations)[k]
    /\ Len(returned) \in {processed, processed - 1}
    /\ pc \in {"for_locale", "done"} =>
          /\ Len(returned) = processed
          /\ total_iphone + total_ipad <= Len(requests)

====
